---- MODULE Spec2Model ----
(***************************************************************************)
(* Huawei FusionSolar integration: the session-authenticated client        *)
(* (fusion_solar_api.py) and the polling coordinator (coordinator.py).     *)
(*                                                                         *)
(* Granularity.  The code is asyncio code: a coroutine runs without        *)
(* interruption until it suspends on network I/O, and the only such        *)
(* suspension is the HTTP call inside _request_raw.  A task of the model   *)
(* is therefore always "waiting for the response of one request", and one  *)
(* step of the model delivers one response (drawn from a small set) to     *)
(* one task and runs that task, and whatever awaits it, up to its next     *)
(* request or to its end.                                                  *)
(*                                                                         *)
(* Numbers.  Python floats are kept as integers counting thousandths       *)
(* (0.19 is 190, 5.0 is 5000); times are kept relative to the running      *)
(* cycle (0: stamped in the current cycle, 1: stamped in an earlier one).  *)
(***************************************************************************)
EXTENDS Integers, Sequences, FiniteSets, TLC

VARIABLES
    cfg,      \* the config entry: credentials, host override, options
    api,      \* FusionSolarApiClient: the session state
    tasks,    \* the running client calls, each waiting on one HTTP request
    co,       \* FusionSolarDataUpdateCoordinator
    last,     \* history: the response delivered by the last step
    calc      \* a payload handed to the parsing functions, and what they gave

vars == <<cfg, api, tasks, co, last, calc>>

NoneV == "None"

(***************************************************************************)
(* Bounds of the model.                                                    *)
(***************************************************************************)
MaxFailures == 4      \* cycles start only while failure_count < MaxFailures
MaxEntries == 3       \* entries of a station-list payload handed to the parser
MaxTasks == 2         \* plants a cycle polls at once

(***************************************************************************)
(* Program constants.                                                      *)
(***************************************************************************)
DEFAULT_HOST == "la5.fusionsolar.huawei.com"
DEFAULT_TIMEOUT_SECONDS == 15
DEFAULT_POLL_INTERVAL_SECONDS == 60
MAX_BACKOFF_SECONDS == 600
MIN_POLL_INTERVAL_SECONDS == 30
MIN_TIMEOUT_SECONDS == 5

VALIDATE_USER_PATH == "/rest/dp/uidm/unisso/v1/validate-user"
SSO_READY_PATH == "/rest/dp/uidm/auth/v1/on-sso-credential-ready"
LOGIN_REDIRECT_PATH == "/rest/pvms/web/login/v1/redirecturl"
VERIFY_CODE_CHECK_PATH == "/rest/dp/uidm/unisso/v1/is-check-verify-code"
LIST_UNFORBIDDEN_SERVER_PATH == "/rest/pvms/web/server/v1/servermgmt/list-unforbidden-server"
KEEPALIVE_PATH == "/rest/dpcloud/auth/v1/keep-alive"
STATION_LIST_PATH == "/rest/pvms/web/station/v1/station/station-list"
STATION_REAL_KPI_PATH == "/rest/pvms/web/station/v1/overview/station-real-kpi"

LOGIN_ERROR_CODES == {"401", "403", "100001", "100002", "USER_PASSWORD_ERROR", "USER_NOT_EXIST"}

\* The three login-flow endpoints of the retry condition of _request_raw.
LoginFlowPaths == {VALIDATE_USER_PATH, SSO_READY_PATH, LOGIN_REDIRECT_PATH}

\* endpoint.startswith("/rest/"), on the endpoints the client requests.
StartsWithRest(endpoint) ==
    endpoint \in {VALIDATE_USER_PATH, SSO_READY_PATH, LOGIN_REDIRECT_PATH,
                  VERIFY_CODE_CHECK_PATH, LIST_UNFORBIDDEN_SERVER_PATH,
                  KEEPALIVE_PATH, STATION_LIST_PATH, STATION_REAL_KPI_PATH}

(***************************************************************************)
(* Python values.  A JSON scalar is kept as a string: "None" is None, a    *)
(* leading # marks an int ("#0" is the int 0, "0" the str "0").            *)
(***************************************************************************)
\* str(value)
PyStr(v) ==
    CASE v = "#0" -> "0"
      [] v = "#401" -> "401"
      [] v = "#403" -> "403"
      [] v = "#100001" -> "100001"
      [] v = "#100002" -> "100002"
      [] v = "#999" -> "999"
      [] OTHER -> v

\* bool(value) of a scalar
Truthy(v) == v \notin {NoneV, "", "#0"}

\* a or b
PyOr(a, b) == IF Truthy(a) THEN a ELSE b

\* _to_str: "" for None, else str(value).strip()
to_str(v) ==
    CASE v = NoneV -> ""
      [] v = " ST-9 " -> "ST-9"
      [] v = "  " -> ""
      [] v = " kW " -> "kW"
      [] OTHER -> PyStr(v)

\* _sanitize_host: strip, lower, drop the scheme, drop trailing slashes
sanitize_host(host) ==
    CASE host = "https://EU5.fusionsolar.huawei.com/" -> "eu5.fusionsolar.huawei.com"
      [] host = " la5.fusionsolar.huawei.com " -> "la5.fusionsolar.huawei.com"
      [] OTHER -> host

\* _dedupe: drop falsy values and repeats, keep first occurrences in order
RECURSIVE dedupe_from(_, _)
dedupe_from(values, deduped) ==
    IF values = <<>> THEN deduped
    ELSE LET value == Head(values)
             seen == {deduped[i] : i \in 1..Len(deduped)}
         IN  IF ~Truthy(value) \/ value \in seen
             THEN dedupe_from(Tail(values), deduped)
             ELSE dedupe_from(Tail(values), Append(deduped, value))

\* a candidate list that drops the empty values only
dedupe_keeps_duplicates(values) == SelectSeq(values, Truthy)

dedupe(values) == dedupe_from(values, <<>>)

(***************************************************************************)
(* Payloads.  A decoded JSON payload is kept as a record of the values the *)
(* client looks at; a field the payload lacks is None.                     *)
(***************************************************************************)
P1 == "NE=10000001"
P2 == "NE=10000002"

EmptyKpi == [name |-> NoneV, key |-> NoneV, power |-> NoneV, unit |-> NoneV,
             today |-> NoneV, month |-> NoneV, year |-> NoneV, total |-> NoneV]

EmptyBody == [isdict |-> TRUE, code |-> NoneV, errorCode |-> NoneV, message |-> NoneV,
              verifyCodeCreate |-> NoneV, ticket |-> NoneV, redirectURL |-> NoneV,
              shape |-> "none", entries |-> <<>>, kpi |-> EmptyKpi]

\* _payload_indicates_login_success
payload_indicates_login_success(payload) ==
    /\ payload.isdict
    /\ payload.code # NoneV
    /\ PyStr(payload.code) = "0"

\* "password" in msg and ("wrong" in msg or "invalid" in msg or "error" in msg),
\* msg being the lower-cased message
MessageNamesBadPassword(msg) ==
    msg \in {"password invalid", "Wrong Password", "password error"}

\* _payload_indicates_invalid_auth
payload_indicates_invalid_auth(payload) ==
    /\ payload.isdict
    /\ LET code == PyOr(payload.code, payload.errorCode)
       IN  \/ code # NoneV /\ PyStr(code) \in LOGIN_ERROR_CODES
           \/ MessageNamesBadPassword(PyStr(PyOr(payload.message, "")))

\* _payload_requires_verify_code (verifyCodeCreate sits in payload["payload"])
payload_requires_verify_code(payload) ==
    /\ payload.isdict
    /\ Truthy(payload.verifyCodeCreate)

\* _extract_ticket_from_url: the first "ticket" query value of the URL
extract_ticket_from_url(url) ==
    CASE url = "https://la5.fusionsolar.huawei.com/sso?ticket=ST-2" -> "ST-2"
      [] url = "/rest/dp/uidm/auth/v1/on-sso-credential-ready?ticket=ST-3&x=1" -> "ST-3"
      [] OTHER -> NoneV

\* _extract_login_ticket: payload ticket, else payload redirect URL, else the
\* redirect_url / location response header
extract_login_ticket(payload, location) ==
    LET ticket == IF payload.isdict THEN to_str(payload.ticket) ELSE ""
        fromUrl == IF payload.isdict
                   THEN extract_ticket_from_url(to_str(payload.redirectURL))
                   ELSE NoneV
    IN  IF Truthy(ticket) THEN ticket
        ELSE IF Truthy(fromUrl) THEN fromUrl
        ELSE extract_ticket_from_url(location)

(***************************************************************************)
(* Numbers: _to_float gives None or a float (in thousandths).              *)
(***************************************************************************)
NoFloat == [some |-> FALSE, v |-> 0]
Float(v) == [some |-> TRUE, v |-> v]

\* _to_float on a raw JSON scalar: numbers pass, strings are stripped, take a
\* decimal comma, and "" and "--" are None
to_float(value) ==
    CASE value = NoneV -> NoFloat
      [] value = "#0" -> Float(0)
      [] value = "#5" -> Float(5000)
      [] value = "#1200" -> Float(1200000)
      [] value = "0.19" -> Float(190)
      [] value = " 7 " -> Float(7000)
      [] value = "1,5" -> Float(1500)
      [] value = "#2" -> Float(2000)
      [] value = "#190" -> Float(190000)
      [] value = "#999" -> Float(999000)
      [] value = "#1000" -> Float(1000000)
      [] value = "#1500" -> Float(1500000)
      [] value = "#-2000" -> Float(-2000000)
      [] value = "-0.5" -> Float(-500)
      [] value = "" -> NoFloat
      [] value = "  " -> NoFloat
      [] value = "--" -> NoFloat
      [] value = "n/a" -> NoFloat
      [] OTHER -> NoFloat

\* str.lower() on the keys and units met
Lower(key) ==
    CASE key = "currentPower" -> "currentpower"
      [] key = "CurrentPower" -> "currentpower"
      [] key = "activePower" -> "activepower"
      [] key = "realTimePower" -> "realtimepower"
      [] key = "powerUnit" -> "powerunit"
      [] key = "activePowerUnit" -> "activepowerunit"
      [] key = "onlyInverterPowerUnit" -> "onlyinverterpowerunit"
      [] key = "dailyEnergy" -> "dailyenergy"
      [] key = "energyToday" -> "energytoday"
      [] key = "dayEnergy" -> "dayenergy"
      [] key = "todayEnergy" -> "todayenergy"
      [] key = "monthEnergy" -> "monthenergy"
      [] key = "energyMonth" -> "energymonth"
      [] key = "monthlyEnergy" -> "monthlyenergy"
      [] key = "yearEnergy" -> "yearenergy"
      [] key = "energyYear" -> "energyyear"
      [] key = "annualEnergy" -> "annualenergy"
      [] key = "cumulativeEnergy" -> "cumulativeenergy"
      [] key = "totalEnergy" -> "totalenergy"
      [] key = "energyTotal" -> "energytotal"
      [] key = "accumulatedEnergy" -> "accumulatedenergy"
      [] key = "lifetimeEnergy" -> "lifetimeenergy"
      [] key = "stationName" -> "stationname"
      [] key = "plantName" -> "plantname"
      [] key = "stationAlias" -> "stationalias"
      [] key = "GW" -> "gw"
      [] key = "kW" -> "kw"
      [] key = "KW" -> "kw"
      [] key = "MW" -> "mw"
      [] key = "W" -> "w"
      [] OTHER -> key

Abs(x) == IF x < 0 THEN -x ELSE x

\* _parse_power_w, the power found under `key` with the unit value `unit`
parse_power_w(kpi) ==
    LET raw_value == to_float(kpi.power)
        unit == Lower(to_str(kpi.unit))
        key_lower == IF kpi.key = NoneV THEN "" ELSE Lower(kpi.key)
    IN  IF kpi.key = NoneV \/ ~raw_value.some THEN NoFloat
        ELSE IF unit = "kw" \/ key_lower \in {"currentpower", "inverterpower"}
             THEN Float(raw_value.v * 1000)
        ELSE IF unit = "mw" THEN Float(raw_value.v * 1000000)
        ELSE IF unit = "w" THEN raw_value
        ELSE IF /\ key_lower \in {"currentpower", "activepower", "realtimepower", "power", "pac"}
                /\ Abs(raw_value.v) < 1000 * 1000
             THEN Float(raw_value.v * 1000)
        ELSE raw_value

\* an energy that reads an unknown value as zero
parse_energy_unknown_is_zero(raw) == IF to_float(raw).some THEN to_float(raw) ELSE Float(0)

\* _parse_energy
parse_energy(raw) == to_float(raw)

\* _extract_plant_name
extract_plant_name(kpi) == to_str(kpi.name)

(***************************************************************************)
(* Key lookup.  The dict that _extract_data gives is kept as the sequence  *)
(* of its items <<key, value>>, in the order of the dict.                  *)
(***************************************************************************)
PLANT_NAME_KEYS == <<"name", "stationName", "plantName", "stationAlias">>
POWER_KEYS == <<"currentPower", "activePower", "realTimePower", "power", "pac">>
POWER_UNIT_KEYS == <<"powerUnit", "activePowerUnit", "onlyInverterPowerUnit", "unit">>
ENERGY_TODAY_KEYS == <<"dailyEnergy", "energyToday", "dayEnergy", "todayEnergy">>
ENERGY_MONTH_KEYS == <<"monthEnergy", "energyMonth", "monthlyEnergy">>
ENERGY_YEAR_KEYS == <<"yearEnergy", "energyYear", "annualEnergy">>
ENERGY_TOTAL_KEYS ==
    <<"cumulativeEnergy", "totalEnergy", "energyTotal", "accumulatedEnergy", "lifetimeEnergy">>

NotFound == [found |-> FALSE, value |-> NoneV, key |-> NoneV]

\* _find_value_by_keys(payload, candidate_keys, with_key=True) on a dict of
\* scalars: the first item whose lower-cased key is a candidate and whose
\* value is neither None nor ""
find_value_by_keys(items, candidate_keys) ==
    LET key_lookup == {Lower(candidate_keys[i]) : i \in 1..Len(candidate_keys)}
        hits == {i \in 1..Len(items) :
                    /\ Lower(items[i][1]) \in key_lookup
                    /\ items[i][2] \notin {NoneV, ""}}
    IN  IF hits = {} THEN NotFound
        ELSE LET first == CHOOSE i \in hits : \A j \in hits : i <= j
             IN  [found |-> TRUE, value |-> items[first][2], key |-> items[first][1]]

\* what async_get_metrics and _parse_power_w look up in the payload
Combined(items) ==
    [name |-> find_value_by_keys(items, PLANT_NAME_KEYS).value,
     key |-> find_value_by_keys(items, POWER_KEYS).key,
     power |-> find_value_by_keys(items, POWER_KEYS).value,
     unit |-> find_value_by_keys(items, POWER_UNIT_KEYS).value,
     today |-> find_value_by_keys(items, ENERGY_TODAY_KEYS).value,
     month |-> find_value_by_keys(items, ENERGY_MONTH_KEYS).value,
     year |-> find_value_by_keys(items, ENERGY_YEAR_KEYS).value,
     total |-> find_value_by_keys(items, ENERGY_TOTAL_KEYS).value]

(***************************************************************************)
(* Key lookup in a tree.  A payload is a scalar, a dict (the sequence of   *)
(* its items, in the order of the dict) or a list.                         *)
(***************************************************************************)
\* an item of a dict
It(key, value) == [key |-> key, value |-> value]

Scalar(v) == [t |-> "scalar", v |-> v]
Dict(items) == [t |-> "dict", items |-> items]
List(items) == [t |-> "list", items |-> items]

\* a test that takes every value under a candidate key, None and "" too
IsMatch_any_value(key, value, key_lookup) == Lower(key) \in key_lookup

\* _find_value_by_keys: key.lower() in key_lookup and value not in (None, "")
IsMatch(key, value, key_lookup) ==
    /\ Lower(key) \in key_lookup
    /\ value \notin {Scalar(NoneV), Scalar("")}

RECURSIVE find_value_by_keys_tree(_, _)
RECURSIVE find_in_children(_, _)
\* _find_value_by_keys: the loops over payload.values() and over the list
find_in_children(children, candidate_keys) ==
    IF children = <<>> THEN NotFound
    ELSE LET found == find_value_by_keys_tree(Head(children), candidate_keys)
         IN  IF found.found THEN found
             ELSE find_in_children(Tail(children), candidate_keys)

\* _find_value_by_keys(payload, candidate_keys, with_key=True)
find_value_by_keys_tree(payload, candidate_keys) ==
    LET key_lookup == {Lower(candidate_keys[i]) : i \in 1..Len(candidate_keys)}
    IN  IF payload.t = "dict"
        THEN LET own == {i \in 1..Len(payload.items) :
                            IsMatch(payload.items[i].key, payload.items[i].value, key_lookup)}
             IN  IF own # {}
                 THEN LET first == CHOOSE i \in own : \A j \in own : i <= j
                      IN  [found |-> TRUE, value |-> payload.items[first].value,
                           key |-> payload.items[first].key]
                 ELSE find_in_children([i \in 1..Len(payload.items) |-> payload.items[i].value],
                                       candidate_keys)
        ELSE IF payload.t = "list"
             THEN find_in_children(payload.items, candidate_keys)
             ELSE NotFound

(***************************************************************************)
(* Plant lists.                                                            *)
(***************************************************************************)
PlantInfo(id, name) == [plant_id |-> id, plant_name |-> name]

\* one entry of the list: its id (or ""), and its name or else its id
EntryPlant(entry) ==
    LET plant_id == to_str(entry.dn)
    IN  PlantInfo(plant_id, PyOr(to_str(entry.name), plant_id))

RECURSIVE StrictPlants(_)
StrictPlants(entries) ==
    IF entries = <<>> THEN <<>>
    ELSE IF Truthy(EntryPlant(Head(entries)).plant_id)
         THEN <<EntryPlant(Head(entries))>> \o StrictPlants(Tail(entries))
         ELSE StrictPlants(Tail(entries))

\* a fallback that appends every entry with an id, met before or not
RECURSIVE FallbackPlants_no_dedupe(_, _)
FallbackPlants_no_dedupe(entries, plants) ==
    IF entries = <<>> THEN plants
    ELSE LET p == EntryPlant(Head(entries))
         IN  IF ~Truthy(p.plant_id) THEN FallbackPlants_no_dedupe(Tail(entries), plants)
             ELSE FallbackPlants_no_dedupe(Tail(entries), Append(plants, p))

\* _parse_plants_fallback: every dict of the payload that holds an id, kept in
\* a dict by id (the position of the first, the value of the last)
RECURSIVE FallbackPlants(_, _)
FallbackPlants(entries, plants) ==
    IF entries = <<>> THEN plants
    ELSE LET p == EntryPlant(Head(entries))
             at == {i \in 1..Len(plants) : plants[i].plant_id = p.plant_id}
         IN  IF ~Truthy(p.plant_id) THEN FallbackPlants(Tail(entries), plants)
             ELSE IF at = {} THEN FallbackPlants(Tail(entries), Append(plants, p))
             ELSE FallbackPlants(Tail(entries),
                                 [i \in 1..Len(plants) |-> IF i \in at THEN p ELSE plants[i]])

\* the first value of `field` in the entries that is neither None nor "":
\* what _find_value_by_keys finds from a dict that wraps the entries
FirstValue(entries, field) ==
    LET hits == {i \in 1..Len(entries) : entries[i][field] \notin {NoneV, ""}}
    IN  IF hits = {} THEN NoneV
        ELSE entries[CHOOSE i \in hits : \A j \in hits : i <= j][field]

\* _walk_payload_entries: the payload dict, the dict under "data", then the
\* entries; the two wrapping dicts are kept as what a key lookup finds in them
walk_payload_entries(payload) ==
    IF payload.shape \in {"list", "rows"}
    THEN LET wrapper == [dn |-> FirstValue(payload.entries, "dn"),
                         name |-> FirstValue(payload.entries, "name")]
         IN  <<wrapper, wrapper>> \o payload.entries
    ELSE <<>>

parse_plants_fallback(payload) == FallbackPlants(walk_payload_entries(payload), <<>>)

\* _parse_station_list: data.list[] first, the walk of the tree when that
\* gives nothing
parse_station_list(payload) ==
    LET plants == IF payload.shape = "list" THEN StrictPlants(payload.entries) ELSE <<>>
    IN  IF plants # <<>> THEN plants ELSE parse_plants_fallback(payload)

(***************************************************************************)
(* The client: FusionSolarApiClient.                                       *)
(*                                                                         *)
(* A task is one call of async_get_plants, async_get_metrics, async_login  *)
(* or async_refresh_session.  pc names the request it waits on:            *)
(*   probe1, probe2, validate, sso, redirect  (inside async_login, on      *)
(*   hosts[hidx]), keepalive (inside async_refresh_session), target (the   *)
(*   station-list or station-real-kpi request), done.                      *)
(* ctx names the caller of the running refresh/login: "pre" (the call's    *)
(* own session check), "retry" (the 401 branch of _request_raw), "direct". *)
(* hist, n_target, n_reauth, steps are history: the statuses the target    *)
(* request got, how often it was sent, how often its 401 branch            *)
(* re-authenticated, and the handshake steps the running async_login has   *)
(* completed on its current host.                                          *)
(***************************************************************************)
NoSnap == [plant_id |-> NoneV, plant_name |-> NoneV, power_w |-> 0,
           energy_today_kwh |-> 0, energy_month_kwh |-> 0, energy_year_kwh |-> 0,
           energy_total_kwh |-> 0, updated_at_utc |-> 0]

Res(kind) == [kind |-> kind, plants |-> <<>>, snap |-> NoSnap]

NoTask == [op |-> "none", pid |-> NoneV, pc |-> "idle", ctx |-> "none",
           hosts |-> <<>>, hidx |-> 0, last_error |-> FALSE,
           thost |-> NoneV, khost |-> NoneV, attempt |-> 0,
           result |-> Res("none"), hist |-> <<>>, n_target |-> 0, n_reauth |-> 0,
           steps |-> <<>>]

NewTask(op, pid) == [NoTask EXCEPT !.op = op, !.pid = pid]

\* what a step of a task gives: the client state, the task, and whether an
\* async_login ended in the step ("none", "returned", "raised")
Mk(a, t, login) == [a |-> a, t |-> t, login |-> login]

\* the call ends with `result`: of the task, only the result is left
OpDone(a, t, result, login) ==
    Mk(a, [NoTask EXCEPT !.op = t.op, !.pid = t.pid, !.pc = "done", !.result = result,
                         !.hist = t.hist, !.n_target = t.n_target, !.n_reauth = t.n_reauth,
                         !.steps = t.steps],
       login)

\* a call that hands a rate limit to its caller as a connection failure
OpRaise_rate_limit_as_cannot_connect(a, t, exc, login) ==
    OpDone(a, t, Res(IF exc = "RateLimited" THEN "CannotConnect" ELSE exc), login)

\* the call ends by raising exc
OpRaise(a, t, exc, login) == OpDone(a, t, Res(exc), login)

\* set_preferred_host
set_preferred_host(a, host) ==
    LET preferred == IF Truthy(host) THEN sanitize_host(host) ELSE NoneV
    IN  [a EXCEPT !.preferred_host = preferred,
                  !.effective_host = IF Truthy(preferred) THEN preferred ELSE @]

\* set_timeout_seconds
set_timeout_seconds(a, timeout_seconds) == [a EXCEPT !.timeout_seconds = timeout_seconds]

\* update_credentials
update_credentials(a, username, password) ==
    [a EXCEPT !.username = username, !.password = password]

\* _apply_runtime_from_response: the host of the final URL becomes effective
apply_runtime_from_response(a, url_host) ==
    IF Truthy(url_host) THEN [a EXCEPT !.effective_host = url_host] ELSE a

\* _extract_security_tokens: the x-csrf-token header, else a token of the payload
extract_security_tokens(a, r) ==
    IF Truthy(r.csrf_header) THEN [a EXCEPT !.csrf_token = r.csrf_header]
    ELSE IF Truthy(to_str(r.csrf_payload)) THEN [a EXCEPT !.csrf_token = to_str(r.csrf_payload)]
    ELSE a

\* the length of the deque of recent statuses
RECENT_STATUSES_MAXLEN == 25

\* _record_status: the endpoint and the status join the recent statuses, of
\* which the last RECENT_STATUSES_MAXLEN are kept (at_utc, the clock at the
\* request, is left out)
record_status(a, endpoint, status) ==
    LET all == Append(a.recent_statuses, [endpoint |-> endpoint, status |-> status])
    IN  [a EXCEPT !.recent_statuses =
            IF Len(all) > RECENT_STATUSES_MAXLEN THEN Tail(all) ELSE all]

\* _mask_username, on the usernames of the config entries
mask_username(username) ==
    CASE ~Truthy(username) -> NoneV
      [] username = "me" -> "**"
      [] username = "user@example.com" -> "us***m"

\* a debug state that shows the CSRF token
get_debug_state_with_token(a) ==
    [effective_host |-> a.effective_host, preferred_host |-> a.preferred_host,
     verify_ssl |-> TRUE, timeout_seconds |-> a.timeout_seconds,
     session_valid |-> a.session_valid, username_masked |-> mask_username(a.username),
     known_plants |-> a.plant_names, recent_statuses |-> a.recent_statuses,
     csrf_token |-> a.csrf_token]

\* get_debug_state (verify_ssl is DEFAULT_VERIFY_SSL in every config entry)
get_debug_state(a) ==
    [effective_host |-> a.effective_host, preferred_host |-> a.preferred_host,
     verify_ssl |-> TRUE, timeout_seconds |-> a.timeout_seconds,
     session_valid |-> a.session_valid, username_masked |-> mask_username(a.username),
     known_plants |-> a.plant_names, recent_statuses |-> a.recent_statuses]

\* the status history bears on get_debug_state alone: the runs of the calls
\* and of the cycles go on without it
WithoutStatusHistory(a) == [a EXCEPT !.recent_statuses = <<>>]

\* the host of response.url: the request's host unless the portal redirected
UrlHost(request_host, r) == IF r.redirect = NoneV THEN request_host ELSE r.redirect

\* a request primitive that marks the session invalid only when it is about to
\* re-authenticate
request_raw_flag_kept_on_raise(a, endpoint, request_host, allow_auth_retry, attempt, r) ==
    IF r.err THEN [k |-> "raise", exc |-> "CannotConnect", a |-> a]
    ELSE
    LET a1 == extract_security_tokens(
                  apply_runtime_from_response(record_status(a, endpoint, r.status),
                                              UrlHost(request_host, r)), r)
        a2 == [a1 EXCEPT !.session_valid = FALSE]
    IN  IF r.status \in {401, 403}
        THEN IF /\ allow_auth_retry /\ attempt = 0 /\ endpoint \notin LoginFlowPaths
                /\ Truthy(a2.username) /\ Truthy(a2.password)
             THEN [k |-> "reauth", exc |-> NoneV, a |-> a2]
             ELSE [k |-> "raise", exc |-> "InvalidAuth", a |-> a1]
        ELSE IF r.status = 429 THEN [k |-> "raise", exc |-> "RateLimited", a |-> a1]
        ELSE IF r.status >= 500 THEN [k |-> "raise", exc |-> "CannotConnect", a |-> a1]
        ELSE IF r.status >= 400
             THEN IF endpoint = VALIDATE_USER_PATH
                  THEN [k |-> "raise", exc |-> "InvalidAuth", a |-> a1]
                  ELSE [k |-> "raise", exc |-> "CannotConnect", a |-> a1]
        ELSE IF /\ r.status = 200 /\ StartsWithRest(endpoint)
                /\ endpoint # LOGIN_REDIRECT_PATH /\ r.html
             THEN IF endpoint = VALIDATE_USER_PATH
                  THEN [k |-> "raise", exc |-> "CannotConnect", a |-> a1]
                  ELSE [k |-> "raise", exc |-> "InvalidAuth", a |-> a1]
        ELSE [k |-> "return", exc |-> NoneV, a |-> a1]

\* a request primitive that takes a 429 for one more client error
request_raw_429_unnamed(a, endpoint, request_host, allow_auth_retry, attempt, r) ==
    IF r.err THEN [k |-> "raise", exc |-> "CannotConnect", a |-> a]
    ELSE
    LET a1 == extract_security_tokens(
                  apply_runtime_from_response(record_status(a, endpoint, r.status),
                                              UrlHost(request_host, r)), r)
        a2 == [a1 EXCEPT !.session_valid = FALSE]
    IN  IF r.status \in {401, 403}
        THEN IF /\ allow_auth_retry /\ attempt = 0 /\ endpoint \notin LoginFlowPaths
                /\ Truthy(a2.username) /\ Truthy(a2.password)
             THEN [k |-> "reauth", exc |-> NoneV, a |-> a2]
             ELSE [k |-> "raise", exc |-> "InvalidAuth", a |-> a2]
        ELSE IF r.status >= 500 THEN [k |-> "raise", exc |-> "CannotConnect", a |-> a1]
        ELSE IF r.status >= 400
             THEN IF endpoint = VALIDATE_USER_PATH
                  THEN [k |-> "raise", exc |-> "InvalidAuth", a |-> a1]
                  ELSE [k |-> "raise", exc |-> "CannotConnect", a |-> a1]
        ELSE IF /\ r.status = 200 /\ StartsWithRest(endpoint)
                /\ endpoint # LOGIN_REDIRECT_PATH /\ r.html
             THEN IF endpoint = VALIDATE_USER_PATH
                  THEN [k |-> "raise", exc |-> "CannotConnect", a |-> a1]
                  ELSE [k |-> "raise", exc |-> "InvalidAuth", a |-> a1]
        ELSE [k |-> "return", exc |-> NoneV, a |-> a1]

\* a request primitive that looks at the content type on the data endpoints
\* only
request_raw_html_on_data_only(a, endpoint, request_host, allow_auth_retry, attempt, r) ==
    IF r.err THEN [k |-> "raise", exc |-> "CannotConnect", a |-> a]
    ELSE
    LET a1 == extract_security_tokens(
                  apply_runtime_from_response(record_status(a, endpoint, r.status),
                                              UrlHost(request_host, r)), r)
        a2 == [a1 EXCEPT !.session_valid = FALSE]
    IN  IF r.status \in {401, 403}
        THEN IF /\ allow_auth_retry /\ attempt = 0 /\ endpoint \notin LoginFlowPaths
                /\ Truthy(a2.username) /\ Truthy(a2.password)
             THEN [k |-> "reauth", exc |-> NoneV, a |-> a2]
             ELSE [k |-> "raise", exc |-> "InvalidAuth", a |-> a2]
        ELSE IF r.status = 429 THEN [k |-> "raise", exc |-> "RateLimited", a |-> a1]
        ELSE IF r.status >= 500 THEN [k |-> "raise", exc |-> "CannotConnect", a |-> a1]
        ELSE IF r.status >= 400
             THEN IF endpoint = VALIDATE_USER_PATH
                  THEN [k |-> "raise", exc |-> "InvalidAuth", a |-> a1]
                  ELSE [k |-> "raise", exc |-> "CannotConnect", a |-> a1]
        ELSE IF /\ r.status = 200 /\ r.html
                /\ endpoint \in {STATION_LIST_PATH, STATION_REAL_KPI_PATH}
             THEN [k |-> "raise", exc |-> "InvalidAuth", a |-> a1]
        ELSE [k |-> "return", exc |-> NoneV, a |-> a1]

\* a request primitive that takes an HTML page for a rejected session: it marks
\* the session invalid and re-authenticates once
request_raw_html_reauthenticates(a, endpoint, request_host, allow_auth_retry, attempt, r) ==
    IF r.err THEN [k |-> "raise", exc |-> "CannotConnect", a |-> a]
    ELSE
    LET a1 == extract_security_tokens(
                  apply_runtime_from_response(record_status(a, endpoint, r.status),
                                              UrlHost(request_host, r)), r)
        a2 == [a1 EXCEPT !.session_valid = FALSE]
    IN  IF r.status \in {401, 403}
        THEN IF /\ allow_auth_retry
                /\ attempt = 0
                /\ endpoint \notin LoginFlowPaths
                /\ Truthy(a2.username)
                /\ Truthy(a2.password)
             THEN [k |-> "reauth", exc |-> NoneV, a |-> a2]
             ELSE [k |-> "raise", exc |-> "InvalidAuth", a |-> a2]
        ELSE IF r.status = 429 THEN [k |-> "raise", exc |-> "RateLimited", a |-> a1]
        ELSE IF r.status >= 500 THEN [k |-> "raise", exc |-> "CannotConnect", a |-> a1]
        ELSE IF r.status >= 400
             THEN IF endpoint = VALIDATE_USER_PATH
                  THEN [k |-> "raise", exc |-> "InvalidAuth", a |-> a1]
                  ELSE [k |-> "raise", exc |-> "CannotConnect", a |-> a1]
        ELSE IF /\ r.status = 200
                /\ StartsWithRest(endpoint)
                /\ endpoint # LOGIN_REDIRECT_PATH
                /\ r.html
             THEN IF endpoint = VALIDATE_USER_PATH
                  THEN [k |-> "raise", exc |-> "CannotConnect", a |-> a1]
                  ELSE IF allow_auth_retry /\ attempt = 0
                       THEN [k |-> "reauth", exc |-> NoneV, a |-> a2]
                       ELSE [k |-> "raise", exc |-> "InvalidAuth", a |-> a2]
        ELSE [k |-> "return", exc |-> NoneV, a |-> a1]

\* _request_raw, one pass of its loop on response r: the response is returned,
\* an error is raised, or ("reauth") the 401 branch refreshes and retries
request_raw(a, endpoint, request_host, allow_auth_retry, attempt, r) ==
    IF r.err THEN [k |-> "raise", exc |-> "CannotConnect", a |-> a]
    ELSE
    LET a1 == extract_security_tokens(
                  apply_runtime_from_response(record_status(a, endpoint, r.status),
                                              UrlHost(request_host, r)), r)
        a2 == [a1 EXCEPT !.session_valid = FALSE]
    IN  IF r.status \in {401, 403}
        THEN IF /\ allow_auth_retry
                /\ attempt = 0
                /\ endpoint \notin LoginFlowPaths
                /\ Truthy(a2.username)
                /\ Truthy(a2.password)
             THEN [k |-> "reauth", exc |-> NoneV, a |-> a2]
             ELSE [k |-> "raise", exc |-> "InvalidAuth", a |-> a2]
        ELSE IF r.status = 429 THEN [k |-> "raise", exc |-> "RateLimited", a |-> a1]
        ELSE IF r.status >= 500 THEN [k |-> "raise", exc |-> "CannotConnect", a |-> a1]
        ELSE IF r.status >= 400
             THEN IF endpoint = VALIDATE_USER_PATH
                  THEN [k |-> "raise", exc |-> "InvalidAuth", a |-> a1]
                  ELSE [k |-> "raise", exc |-> "CannotConnect", a |-> a1]
        ELSE IF /\ r.status = 200
                /\ StartsWithRest(endpoint)
                /\ endpoint # LOGIN_REDIRECT_PATH
                /\ r.html
             THEN IF endpoint = VALIDATE_USER_PATH
                  THEN [k |-> "raise", exc |-> "CannotConnect", a |-> a1]
                  ELSE [k |-> "raise", exc |-> "InvalidAuth", a |-> a1]
        ELSE [k |-> "return", exc |-> NoneV, a |-> a1]

\* the target request of the call
TargetPath(t) == IF t.op = "plants" THEN STATION_LIST_PATH ELSE STATION_REAL_KPI_PATH

\* _request_raw is entered for the target: the URL is built from the effective
\* host once, before the loop, and the first request goes out
IssueTarget(a, t, login) ==
    Mk(a, [t EXCEPT !.pc = "target", !.thost = a.effective_host, !.attempt = 0,
                    !.n_target = @ + 1], login)

\* a retry that starts the count of the attempts anew
RetryTarget_attempt_reset(a, t, login) ==
    Mk(a, [t EXCEPT !.pc = "target", !.attempt = 0, !.n_target = @ + 1], login)

\* the 401 branch of _request_raw continues: the same request goes out again
\* ("for attempt in range(2)"; past the range "Request retry exhausted" is raised)
RetryTarget(a, t, login) ==
    IF t.attempt + 1 < 2
    THEN Mk(a, [t EXCEPT !.pc = "target", !.attempt = @ + 1, !.n_target = @ + 1], login)
    ELSE OpRaise(a, t, "CannotConnect", login)

\* a return to the caller in which the retry enters _request_raw anew, with
\* its attempt counter back at 0
SessionReady_retry_restarts(a, t, login) ==
    CASE t.ctx \in {"pre", "retry"} -> IssueTarget(a, t, login)
      [] OTHER -> OpDone(a, t, Res("ok"), login)

\* async_refresh_session / async_login returned to its caller
SessionReady(a, t, login) ==
    CASE t.ctx = "pre" -> IssueTarget(a, t, login)
      [] t.ctx = "retry" -> RetryTarget(a, t, login)
      [] OTHER -> OpDone(a, t, Res("ok"), login)

\* async_login, from its entry to the first pre-login probe; async_refresh_session
\* passes the stored credentials and the stored preferred host
async_login(a, t, preferred_host) ==
    LET a1 == IF preferred_host # NoneV THEN set_preferred_host(a, preferred_host) ELSE a
        host_candidates == dedupe(<<a1.preferred_host, a1.effective_host, DEFAULT_HOST>>)
    IN  IF ~Truthy(a1.username) \/ ~Truthy(a1.password)
        THEN OpRaise(a1, t, "InvalidAuth", "raised")
        ELSE IF host_candidates = <<>>
             THEN OpRaise(a1, t, "InvalidAuth", "raised")
             ELSE Mk(a1, [t EXCEPT !.pc = "probe1", !.hosts = host_candidates,
                                   !.hidx = 1, !.last_error = FALSE, !.steps = <<>>], "none")

\* a refresh that goes to the full login whatever the session flag says
async_refresh_session_always_logs_in(a, t, ctx) ==
    async_login(a, [t EXCEPT !.ctx = ctx], a.preferred_host)

\* async_refresh_session, from its entry to its first request
async_refresh_session(a, t, ctx) ==
    IF a.session_valid
    THEN Mk(a, [t EXCEPT !.ctx = ctx, !.pc = "keepalive", !.khost = a.effective_host], "none")
    ELSE async_login(a, [t EXCEPT !.ctx = ctx], a.preferred_host)

\* a loop over the host candidates that starts over after a connection error
NextHost_starts_over(a, t) ==
    Mk(a, [t EXCEPT !.pc = "probe1", !.hidx = 1, !.last_error = TRUE, !.steps = <<>>], "none")

\* async_login: the loop over the host candidates moves on after a connection
\* error of validate-user, and raises after the last candidate
NextHost(a, t) ==
    IF t.hidx < Len(t.hosts)
    THEN Mk(a, [t EXCEPT !.pc = "probe1", !.hidx = @ + 1, !.last_error = TRUE,
                         !.steps = <<>>], "none")
    ELSE OpRaise(a, t, "CannotConnect", "raised")

\* a classification in which an invalid-credential payload moves on to the
\* next host candidate
AfterValidate_tries_next_host(a, t, r) ==
    IF ~payload_indicates_login_success(r.body)
    THEN IF payload_requires_verify_code(r.body) THEN OpRaise(a, t, "CannotConnect", "raised")
         ELSE IF payload_indicates_invalid_auth(r.body) THEN NextHost(a, t)
         ELSE OpRaise(a, t, "EndpointSchemaChanged", "raised")
    ELSE IF ~Truthy(extract_login_ticket(r.body, r.location))
         THEN OpRaise(a, t, "EndpointSchemaChanged", "raised")
         ELSE Mk(a, [t EXCEPT !.pc = "sso", !.steps = Append(@, "validate")], "none")

\* a classification that takes every payload it does not know for a rejection
\* of the credentials
AfterValidate_unknown_is_invalid_auth(a, t, r) ==
    IF ~payload_indicates_login_success(r.body)
    THEN IF payload_requires_verify_code(r.body) THEN OpRaise(a, t, "CannotConnect", "raised")
         ELSE OpRaise(a, t, "InvalidAuth", "raised")
    ELSE IF ~Truthy(extract_login_ticket(r.body, r.location))
         THEN OpRaise(a, t, "InvalidAuth", "raised")
         ELSE Mk(a, [t EXCEPT !.pc = "sso", !.steps = Append(@, "validate")], "none")

\* async_login after validate-user returned: the payload is classified and the
\* ticket extracted
AfterValidate(a, t, r) ==
    IF ~payload_indicates_login_success(r.body)
    THEN IF payload_requires_verify_code(r.body) THEN OpRaise(a, t, "CannotConnect", "raised")
         ELSE IF payload_indicates_invalid_auth(r.body) THEN OpRaise(a, t, "InvalidAuth", "raised")
         ELSE OpRaise(a, t, "EndpointSchemaChanged", "raised")
    ELSE IF ~Truthy(extract_login_ticket(r.body, r.location))
         THEN OpRaise(a, t, "EndpointSchemaChanged", "raised")
         ELSE Mk(a, [t EXCEPT !.pc = "sso", !.steps = Append(@, "validate")], "none")

\* a handshake that marks the session valid before the login redirect
AfterSso_marks_valid(a, t) ==
    Mk([a EXCEPT !.session_valid = TRUE],
       [t EXCEPT !.pc = "redirect", !.steps = Append(@, "sso")], "none")

\* async_login after the SSO-ready request returned
AfterSso(a, t) == Mk(a, [t EXCEPT !.pc = "redirect", !.steps = Append(@, "sso")], "none")

\* async_login after the login-redirect request returned: the session is
\* marked valid and async_login returns
AfterRedirect(a, t) ==
    SessionReady([a EXCEPT !.session_valid = TRUE],
                 [t EXCEPT !.steps = Append(@, "redirect")], "returned")

\* async_get_plants after the station-list request returned
FinishPlants(a, t, r) ==
    LET plants == parse_station_list(r.body)
        ids == {plants[i].plant_id : i \in 1..Len(plants)}
        names == [id \in ids |->
                     LET at == {i \in 1..Len(plants) : plants[i].plant_id = id}
                         final == CHOOSE i \in at : \A j \in at : j <= i
                     IN  plants[final].plant_name]
    IN  IF plants = <<>> THEN OpRaise(a, t, "EndpointSchemaChanged", "none")
        ELSE OpDone([a EXCEPT !.plant_names = names], t,
                    [Res("ok") EXCEPT !.plants = plants], "none")

\* async_get_metrics after the station-real-kpi request returned
FinishMetrics(a, t, r) ==
    LET combined == r.body.kpi
        power_w == parse_power_w(combined)
        today_kwh == parse_energy(combined.today)
        month_kwh == parse_energy(combined.month)
        year_kwh == parse_energy(combined.year)
        total_kwh == parse_energy(combined.total)
        known == IF t.pid \in DOMAIN a.plant_names THEN a.plant_names[t.pid] ELSE NoneV
        snap == [plant_id |-> t.pid,
                 plant_name |-> PyOr(PyOr(extract_plant_name(combined), known), t.pid),
                 power_w |-> power_w.v,
                 energy_today_kwh |-> today_kwh.v,
                 energy_month_kwh |-> month_kwh.v,
                 energy_year_kwh |-> year_kwh.v,
                 energy_total_kwh |-> total_kwh.v,
                 updated_at_utc |-> 0]
    IN  IF \E x \in {power_w, today_kwh, month_kwh, year_kwh, total_kwh} : ~x.some
        THEN OpRaise(a, t, "EndpointSchemaChanged", "none")
        ELSE OpDone(a, t, [Res("ok") EXCEPT !.snap = snap], "none")

\* the endpoint and the host of the request the task waits on
Endpoint(t) ==
    CASE t.pc = "probe1" -> VERIFY_CODE_CHECK_PATH
      [] t.pc = "probe2" -> LIST_UNFORBIDDEN_SERVER_PATH
      [] t.pc = "validate" -> VALIDATE_USER_PATH
      [] t.pc = "sso" -> SSO_READY_PATH
      [] t.pc = "redirect" -> LOGIN_REDIRECT_PATH
      [] t.pc = "keepalive" -> KEEPALIVE_PATH
      [] OTHER -> TargetPath(t)

RequestHost(t) ==
    CASE t.pc \in {"probe1", "probe2", "validate", "sso", "redirect"} -> t.hosts[t.hidx]
      [] t.pc = "keepalive" -> t.khost
      [] OTHER -> t.thost

\* every request but the target one is made with allow_auth_retry=False
AllowAuthRetry(t) == t.pc = "target"

\* a probe that raised ends the login with what it raised
async_prelogin_probes_failure_raises(a, t, out) ==
    IF out.k = "raise"
    THEN OpRaise(a, t, out.exc, "raised")
    ELSE Mk(a, [t EXCEPT !.pc = IF t.pc = "probe1" THEN "probe2" ELSE "validate"], "none")

\* _async_prelogin_probes when a probe is answered with outcome `out`: what the
\* probe returned or raised is dropped and the next request of the login is made
async_prelogin_probes(a, t, out) ==
    Mk(a, [t EXCEPT !.pc = IF t.pc = "probe1" THEN "probe2" ELSE "validate"], "none")

\* a login in which a connection error of SSO-ready moves on to the next host
\* candidate, as one of validate-user does
Deliver_sso_error_tries_next_host(a, t, r) ==
    LET out == request_raw(a, Endpoint(t), RequestHost(t), AllowAuthRetry(t), t.attempt, r)
        b == out.a
    IN  CASE t.pc \in {"probe1", "probe2"} -> async_prelogin_probes(b, t, out)
          [] t.pc = "validate" ->
                IF out.k = "raise"
                THEN IF out.exc \in {"CannotConnect", "RateLimited"}
                     THEN NextHost(b, t)
                     ELSE OpRaise(b, t, out.exc, "raised")
                ELSE AfterValidate(b, t, r)
          [] t.pc = "sso" ->
                IF out.k = "raise"
                THEN IF out.exc \in {"CannotConnect", "RateLimited"}
                     THEN NextHost(b, t)
                     ELSE OpRaise(b, t, out.exc, "raised")
                ELSE AfterSso(b, t)
          [] t.pc = "redirect" ->
                IF out.k = "raise" THEN OpRaise(b, t, out.exc, "raised")
                ELSE AfterRedirect(b, t)
          [] t.pc = "keepalive" ->
                IF out.k = "raise"
                THEN IF out.exc = "InvalidAuth"
                     THEN async_login([b EXCEPT !.session_valid = FALSE], t, b.preferred_host)
                     ELSE async_login(b, t, b.preferred_host)
                ELSE IF r.status < 400
                     THEN SessionReady([b EXCEPT !.session_valid = TRUE], t, "none")
                     ELSE async_login(b, t, b.preferred_host)
          [] OTHER ->
                LET t1 == [t EXCEPT !.hist = Append(@, IF r.err THEN 0 ELSE r.status)]
                IN  IF out.k = "raise" THEN OpRaise(b, t1, out.exc, "none")
                    ELSE IF out.k = "reauth"
                         THEN async_refresh_session(b, [t1 EXCEPT !.n_reauth = @ + 1], "retry")
                    ELSE IF t.op = "plants" THEN FinishPlants(b, t1, r)
                    ELSE FinishMetrics(b, t1, r)

\* The task receives response r and runs to its next request or to its end.
Deliver(a, t, r) ==
    LET out == request_raw(a, Endpoint(t), RequestHost(t), AllowAuthRetry(t), t.attempt, r)
        b == out.a
    IN  CASE t.pc \in {"probe1", "probe2"} -> async_prelogin_probes(b, t, out)
          [] t.pc = "validate" ->
                IF out.k = "raise"
                THEN IF out.exc \in {"CannotConnect", "RateLimited"}
                     THEN NextHost(b, t)
                     ELSE OpRaise(b, t, out.exc, "raised")
                ELSE AfterValidate(b, t, r)
          [] t.pc = "sso" ->
                IF out.k = "raise" THEN OpRaise(b, t, out.exc, "raised")
                ELSE AfterSso(b, t)
          [] t.pc = "redirect" ->
                IF out.k = "raise" THEN OpRaise(b, t, out.exc, "raised")
                ELSE AfterRedirect(b, t)
          [] t.pc = "keepalive" ->
                IF out.k = "raise"
                THEN IF out.exc = "InvalidAuth"
                     THEN async_login([b EXCEPT !.session_valid = FALSE], t, b.preferred_host)
                     ELSE async_login(b, t, b.preferred_host)
                ELSE IF r.status < 400
                     THEN SessionReady([b EXCEPT !.session_valid = TRUE], t, "none")
                     ELSE async_login(b, t, b.preferred_host)
          [] OTHER ->
                LET t1 == [t EXCEPT !.hist = Append(@, IF r.err THEN 0 ELSE r.status)]
                IN  IF out.k = "raise" THEN OpRaise(b, t1, out.exc, "none")
                    ELSE IF out.k = "reauth"
                         THEN async_refresh_session(b, [t1 EXCEPT !.n_reauth = @ + 1], "retry")
                    ELSE IF t.op = "plants" THEN FinishPlants(b, t1, r)
                    ELSE FinishMetrics(b, t1, r)

\* a call that refreshes the session first, valid or not
async_get_always_refreshes(a, op, pid) ==
    async_refresh_session(a, NewTask(op, pid), "pre")

\* the call is entered and runs to its first request
async_get(a, op, pid) ==
    IF ~a.session_valid
    THEN async_refresh_session(a, NewTask(op, pid), "pre")
    ELSE IssueTarget(a, NewTask(op, pid), "none")

(***************************************************************************)
(* The coordinator: FusionSolarDataUpdateCoordinator.                      *)
(***************************************************************************)
\* int(value) on an option value: ok is FALSE where int() raises
PyInt(value) ==
    CASE value = "#10" -> [ok |-> TRUE, v |-> 10]
      [] value = "#15" -> [ok |-> TRUE, v |-> 15]
      [] value = "#30" -> [ok |-> TRUE, v |-> 30]
      [] value = "#60" -> [ok |-> TRUE, v |-> 60]
      [] value = "#700" -> [ok |-> TRUE, v |-> 700]
      [] value = "45" -> [ok |-> TRUE, v |-> 45]
      [] value = "#3" -> [ok |-> TRUE, v |-> 3]
      [] value = "#20" -> [ok |-> TRUE, v |-> 20]
      [] OTHER -> [ok |-> FALSE, v |-> 0]

Max(x, y) == IF x >= y THEN x ELSE y
Min(x, y) == IF x <= y THEN x ELSE y

\* options.get(key, default) for an option that may be absent
OptionOr(value, default) == IF value = "absent" THEN default ELSE value

\* _poll_interval_seconds
poll_interval_seconds(c) ==
    LET value == OptionOr(c.poll_interval_seconds, "#60")
    IN  IF PyInt(value).ok THEN Max(MIN_POLL_INTERVAL_SECONDS, PyInt(value).v)
        ELSE DEFAULT_POLL_INTERVAL_SECONDS

\* _request_timeout_seconds
request_timeout_seconds(c) ==
    LET value == OptionOr(c.request_timeout_seconds, "#15")
    IN  IF PyInt(value).ok THEN Max(MIN_TIMEOUT_SECONDS, PyInt(value).v)
        ELSE DEFAULT_TIMEOUT_SECONDS

\* an allow-list that is never read
enabled_plant_ids_ignored(c) == {}

\* _enabled_plant_ids: the empty set when the option is absent or empty
enabled_plant_ids(c) ==
    IF ~c.enabled_plant_ids.present \/ c.enabled_plant_ids.ids = {} THEN {}
    ELSE {PyStr(plant_id) : plant_id \in c.enabled_plant_ids.ids}

\* 2**n
RECURSIVE Pow2(_)
Pow2(n) == IF n = 0 THEN 1 ELSE 2 * Pow2(n - 1)

\* a backoff that doubles without the ceiling of MAX_BACKOFF_SECONDS
apply_backoff_uncapped(c, k) ==
    LET failure_count == k.failure_count + 1
    IN  [k EXCEPT !.failure_count = failure_count,
                  !.update_interval = poll_interval_seconds(c) * Pow2(failure_count)]

\* _apply_backoff
apply_backoff(c, k) ==
    LET failure_count == k.failure_count + 1
        next_seconds == Min(MAX_BACKOFF_SECONDS, poll_interval_seconds(c) * Pow2(failure_count))
    IN  [k EXCEPT !.failure_count = failure_count, !.update_interval = next_seconds]

\* a reset of the interval that leaves the failure count
clear_backoff_interval_only(c, k) ==
    [k EXCEPT !.update_interval = poll_interval_seconds(c)]

\* _clear_backoff
clear_backoff(c, k) ==
    [k EXCEPT !.failure_count = 0, !.update_interval = poll_interval_seconds(c)]

EmptyMap == [id \in {} |-> NoneV]

\* a merge that starts from no previous data
PreviousData_none(k) == EmptyMap

\* previous_data = self.data if isinstance(self.data, dict) else {}
PreviousData(k) == IF k.data.isdict THEN k.data.map ELSE EmptyMap

\* a cycle that raises and forgets the data of the cycles before
CycleRaise_data_dropped(k, outcome, message) ==
    [k EXCEPT !.phase = "idle", !.outcome = outcome, !.message = message,
              !.data = [isdict |-> TRUE, map |-> EmptyMap]]

\* the cycle ends: it raised ConfigEntryAuthFailed or UpdateFailed, or returned
CycleRaise(k, outcome, message) ==
    [k EXCEPT !.phase = "idle", !.outcome = outcome, !.message = message]

\* the merge loop of _async_update_data over zip(selected_plants, results), from
\* position i on: auth is TRUE once an InvalidAuth result is met
RECURSIVE MergeFrom(_, _, _, _, _)
MergeFrom(selected, results, previous_data, i, acc) ==
    IF i > Len(selected) \/ acc.auth THEN acc
    ELSE LET plant == selected[i]
             result == results[i]
             named == IF ~Truthy(result.snap.plant_name)
                      THEN [result.snap EXCEPT !.plant_name = plant.plant_name]
                      ELSE result.snap
             put(v) == [id \in DOMAIN acc.snapshots \cup {plant.plant_id} |->
                           IF id = plant.plant_id THEN v ELSE acc.snapshots[id]]
         IN  IF result.kind # "ok"
             THEN IF result.kind = "InvalidAuth"
                  THEN [acc EXCEPT !.auth = TRUE]
                  ELSE MergeFrom(selected, results, previous_data, i + 1,
                          [acc EXCEPT !.partial_errors = Append(@, plant.plant_id),
                                      !.snapshots = IF plant.plant_id \in DOMAIN previous_data
                                                    THEN put(previous_data[plant.plant_id])
                                                    ELSE @])
             ELSE MergeFrom(selected, results, previous_data, i + 1,
                            [acc EXCEPT !.snapshots = put(named)])

\* a merge in which an InvalidAuth result counts as one more failed plant
Merge_auth_as_partial(c, k, results) ==
    LET m == MergeFrom(k.selected,
                       [i \in 1..Len(results) |->
                           IF results[i].kind = "InvalidAuth" THEN Res("CannotConnect")
                           ELSE results[i]],
                       PreviousData(k), 1,
                       [auth |-> FALSE, snapshots |-> EmptyMap, partial_errors |-> <<>>])
    IN  IF DOMAIN m.snapshots = {}
        THEN CycleRaise(apply_backoff(c, k), "UpdateFailed", "All plant requests failed")
        ELSE [clear_backoff(c, k) EXCEPT
                 !.last_success_at_utc = 0,
                 !.phase = "idle", !.outcome = "returned", !.message = "",
                 !.data = [isdict |-> TRUE, map |-> m.snapshots]]

\* a merge that starts from the previous data and overwrites what it fetched
Merge_onto_previous_data(c, k, results) ==
    LET m == MergeFrom(k.selected, results, PreviousData(k), 1,
                       [auth |-> FALSE, snapshots |-> PreviousData(k), partial_errors |-> <<>>])
    IN  IF m.auth THEN CycleRaise(k, "ConfigEntryAuthFailed", "")
        ELSE IF DOMAIN m.snapshots = {}
             THEN CycleRaise(apply_backoff(c, k), "UpdateFailed", "All plant requests failed")
             ELSE [clear_backoff(c, k) EXCEPT
                      !.last_success_at_utc = 0,
                      !.phase = "idle", !.outcome = "returned", !.message = "",
                      !.data = [isdict |-> TRUE, map |-> m.snapshots]]

\* a merge that backs off when no result of the cycle is a snapshot
Merge_no_fresh_snapshot_fails(c, k, results) ==
    LET m == MergeFrom(k.selected, results, PreviousData(k), 1,
                       [auth |-> FALSE, snapshots |-> EmptyMap, partial_errors |-> <<>>])
    IN  IF m.auth THEN CycleRaise(k, "ConfigEntryAuthFailed", "")
        ELSE IF DOMAIN m.snapshots = {} \/ Len(m.partial_errors) = Len(k.selected)
             THEN CycleRaise(apply_backoff(c, k), "UpdateFailed", "All plant requests failed")
             ELSE [clear_backoff(c, k) EXCEPT
                      !.last_success_at_utc = 0,
                      !.phase = "idle", !.outcome = "returned", !.message = "",
                      !.data = [isdict |-> TRUE, map |-> m.snapshots]]

\* _async_update_data once asyncio.gather returned the results
Merge(c, k, results) ==
    LET m == MergeFrom(k.selected, results, PreviousData(k), 1,
                       [auth |-> FALSE, snapshots |-> EmptyMap, partial_errors |-> <<>>])
    IN  IF m.auth THEN CycleRaise(k, "ConfigEntryAuthFailed", "")
        ELSE IF DOMAIN m.snapshots = {}
             THEN CycleRaise(apply_backoff(c, k), "UpdateFailed", "All plant requests failed")
             ELSE [clear_backoff(c, k) EXCEPT
                      !.last_success_at_utc = 0,
                      !.phase = "idle", !.outcome = "returned", !.message = "",
                      !.data = [isdict |-> TRUE, map |-> m.snapshots]]

\* except clauses in which InvalidAuth backs off like a connection error
PlantsFailed_auth_backs_off(c, k, kind) ==
    CASE kind = "InvalidAuth" -> CycleRaise(apply_backoff(c, k), "ConfigEntryAuthFailed", "")
      [] kind = "RateLimited" ->
            CycleRaise(apply_backoff(c, k), "UpdateFailed", "FusionSolar rate-limited the request")
      [] kind = "CannotConnect" ->
            CycleRaise(apply_backoff(c, k), "UpdateFailed", "Cannot connect to FusionSolar")
      [] OTHER ->
            CycleRaise(k, "UpdateFailed", "FusionSolar endpoint schema changed")

\* except clauses in which RateLimited does not back off
PlantsFailed_rate_limit_ignored(c, k, kind) ==
    CASE kind = "InvalidAuth" -> CycleRaise(k, "ConfigEntryAuthFailed", "")
      [] kind = "RateLimited" ->
            CycleRaise(k, "UpdateFailed", "FusionSolar rate-limited the request")
      [] kind = "CannotConnect" ->
            CycleRaise(apply_backoff(c, k), "UpdateFailed", "Cannot connect to FusionSolar")
      [] OTHER ->
            CycleRaise(k, "UpdateFailed", "FusionSolar endpoint schema changed")

\* except clauses in which a schema change backs off like a connection error
PlantsFailed_schema_backs_off(c, k, kind) ==
    CASE kind = "InvalidAuth" -> CycleRaise(k, "ConfigEntryAuthFailed", "")
      [] kind = "RateLimited" ->
            CycleRaise(apply_backoff(c, k), "UpdateFailed", "FusionSolar rate-limited the request")
      [] kind = "CannotConnect" ->
            CycleRaise(apply_backoff(c, k), "UpdateFailed", "Cannot connect to FusionSolar")
      [] OTHER ->
            CycleRaise(apply_backoff(c, k), "UpdateFailed", "FusionSolar endpoint schema changed")

\* _async_update_data when async_get_plants raised: the except clauses
PlantsFailed(c, k, kind) ==
    CASE kind = "InvalidAuth" -> CycleRaise(k, "ConfigEntryAuthFailed", "")
      [] kind = "RateLimited" ->
            CycleRaise(apply_backoff(c, k), "UpdateFailed", "FusionSolar rate-limited the request")
      [] kind = "CannotConnect" ->
            CycleRaise(apply_backoff(c, k), "UpdateFailed", "Cannot connect to FusionSolar")
      [] OTHER ->
            CycleRaise(k, "UpdateFailed", "FusionSolar endpoint schema changed")

\* a cycle in which a configured allow-list, empty or not, selects the plants
\* it names and no other
PlantsFetched_empty_list_selects_none(c, k, plants) ==
    LET ids == {plants[i].plant_id : i \in 1..Len(plants)}
        known == [id \in ids |->
                    LET at == {i \in 1..Len(plants) : plants[i].plant_id = id}
                        final == CHOOSE i \in at : \A j \in at : j <= i
                    IN  plants[final].plant_name]
        enabled == enabled_plant_ids(c)
        selected_plants == SelectSeq(plants,
                              LAMBDA plant : \/ ~c.enabled_plant_ids.present
                                             \/ plant.plant_id \in enabled)
    IN  IF plants = <<>>
        THEN CycleRaise(k, "UpdateFailed", "No plants returned by FusionSolar")
        ELSE IF selected_plants = <<>>
             THEN CycleRaise([k EXCEPT !.known_plants = known],
                             "UpdateFailed", "No plants selected for polling")
             ELSE [k EXCEPT !.known_plants = known, !.phase = "gather",
                            !.selected = selected_plants]

\* a cycle that records the plants it selected and keeps those it knew
PlantsFetched_known_is_selected(c, k, plants) ==
    LET enabled == enabled_plant_ids(c)
        selected_plants == SelectSeq(plants,
                              LAMBDA plant : enabled = {} \/ plant.plant_id \in enabled)
        ids == {selected_plants[i].plant_id : i \in 1..Len(selected_plants)}
        known == [id \in ids \cup DOMAIN k.known_plants |->
                    IF id \in ids
                    THEN LET at == {i \in 1..Len(plants) : plants[i].plant_id = id}
                             final == CHOOSE i \in at : \A j \in at : j <= i
                         IN  plants[final].plant_name
                    ELSE k.known_plants[id]]
    IN  IF plants = <<>>
        THEN CycleRaise(k, "UpdateFailed", "No plants returned by FusionSolar")
        ELSE IF selected_plants = <<>>
             THEN CycleRaise([k EXCEPT !.known_plants = known],
                             "UpdateFailed", "No plants selected for polling")
             ELSE [k EXCEPT !.known_plants = known, !.phase = "gather",
                            !.selected = selected_plants]

\* _async_update_data when async_get_plants returned `plants`: the plants are
\* recorded and the selected ones handed to asyncio.gather
PlantsFetched(c, k, plants) ==
    LET ids == {plants[i].plant_id : i \in 1..Len(plants)}
        known == [id \in ids |->
                    LET at == {i \in 1..Len(plants) : plants[i].plant_id = id}
                        final == CHOOSE i \in at : \A j \in at : j <= i
                    IN  plants[final].plant_name]
        enabled == enabled_plant_ids(c)
        selected_plants == SelectSeq(plants,
                              LAMBDA plant : enabled = {} \/ plant.plant_id \in enabled)
    IN  IF plants = <<>>
        THEN CycleRaise(k, "UpdateFailed", "No plants returned by FusionSolar")
        ELSE IF selected_plants = <<>>
             THEN CycleRaise([k EXCEPT !.known_plants = known],
                             "UpdateFailed", "No plants selected for polling")
             ELSE [k EXCEPT !.known_plants = known, !.phase = "gather",
                            !.selected = selected_plants]

\* _async_update_data once async_get_plants ended with `result`
AfterPlants(c, k, result) ==
    IF result.kind = "ok" THEN PlantsFetched(c, k, result.plants)
    ELSE PlantsFailed(c, k, result.kind)

(***************************************************************************)
(* Responses of the portal.                                                *)
(***************************************************************************)
ALT_HOST == "intl.fusionsolar.huawei.com"

\* a timeout or an aiohttp.ClientError
TransportError ==
    [err |-> TRUE, status |-> 0, html |-> FALSE, redirect |-> NoneV, csrf_header |-> NoneV,
     csrf_payload |-> NoneV, location |-> NoneV, body |-> EmptyBody]

Http(status, html, head, location, body) ==
    [err |-> FALSE, status |-> status, html |-> html, redirect |-> head.redirect,
     csrf_header |-> head.csrf_header, csrf_payload |-> head.csrf_payload,
     location |-> location, body |-> body]

PlainHead == [redirect |-> NoneV, csrf_header |-> NoneV, csrf_payload |-> NoneV]

\* the portal answered from another regional host
RedirectedHead == [PlainHead EXCEPT !.redirect = ALT_HOST]

\* the response carries a CSRF token: in the payload, or in the header too
TokenHeads == {[PlainHead EXCEPT !.csrf_payload = "tokP"],
               [PlainHead EXCEPT !.csrf_header = "tokH", !.csrf_payload = "tokP"]}

TICKET_URL == "https://la5.fusionsolar.huawei.com/sso?ticket=ST-2"
LOCATION_URL == "/rest/dp/uidm/auth/v1/on-sso-credential-ready?ticket=ST-3&x=1"

\* validate-user payloads: the invalid-credential codes, the other refusals,
\* and the successes with the ticket in its three places or nowhere
ValidateBodies ==
    {[EmptyBody EXCEPT !.code = c] :
        c \in {"#401", "403", "100001", "#100002", "USER_PASSWORD_ERROR", "USER_NOT_EXIST",
               "#999", NoneV}}
    \cup
    {[EmptyBody EXCEPT !.code = "USER_PASSWORD_ERROR", !.verifyCodeCreate = "true"],
     [EmptyBody EXCEPT !.verifyCodeCreate = "true"],
     [EmptyBody EXCEPT !.errorCode = "USER_NOT_EXIST"],
     [EmptyBody EXCEPT !.code = "#999", !.message = "password invalid"],
     [EmptyBody EXCEPT !.isdict = FALSE]}
    \cup
    {[EmptyBody EXCEPT !.code = c, !.ticket = k, !.redirectURL = u] :
        c \in {"0", "#0"}, k \in {NoneV, "ST-1"}, u \in {NoneV, TICKET_URL}}

Entry(dn, name) == [dn |-> dn, name |-> name]

ListBodies ==
    {[EmptyBody EXCEPT !.shape = "list", !.entries = es] :
        es \in {<<>>, <<Entry(NoneV, "Casa")>>, <<Entry(P1, "Casa Norte")>>,
                <<Entry(P2, NoneV)>>,
                <<Entry(P1, "Casa Norte"), Entry(P2, "Casa Sur")>>}}
    \cup
    {[EmptyBody EXCEPT !.shape = "rows",
                       !.entries = <<Entry(P2, "Casa Sur"), Entry(P1, "Casa Norte")>>]}

Kpi(name, key, power, unit, today, total) ==
    [name |-> name, key |-> key, power |-> power, unit |-> unit,
     today |-> today, month |-> "#5", year |-> "1,5", total |-> total]

KpiBodies ==
    {[EmptyBody EXCEPT !.kpi = k] :
        k \in {Kpi(NoneV, "currentPower", "0.19", NoneV, "#5", "#1200"),
               Kpi("Casa KPI", "activePower", "#5", "kW", " 7 ", "#1200"),
               Kpi(NoneV, "currentPower", "0.19", NoneV, "--", "#1200"),
               Kpi(NoneV, "currentPower", "0.19", NoneV, "#5", NoneV),
               Kpi(NoneV, NoneV, NoneV, NoneV, "#5", "#1200")}}

FewValidateBodies ==
    {[EmptyBody EXCEPT !.code = "#0", !.ticket = "ST-1"],
     [EmptyBody EXCEPT !.code = "100001", !.message = "password invalid"]}

FewListBodies ==
    {[EmptyBody EXCEPT !.shape = "list", !.entries = es] :
        es \in {<<>>, <<Entry(P1, "Casa Norte")>>,
                <<Entry(P1, "Casa Norte"), Entry(P2, "Casa Sur")>>}}

FewKpiBodies ==
    {[EmptyBody EXCEPT !.kpi = k] :
        k \in {Kpi(NoneV, "currentPower", "0.19", NoneV, "#5", "#1200"),
               Kpi(NoneV, "currentPower", "0.19", NoneV, "--", "#1200")}}

\* What the portal is let to answer in a run: the heads, the error statuses,
\* the bodies per endpoint, the location headers of validate-user; rec says
\* whether the history (last, and the tasks' hist and counts) is recorded.
CoordinatorProfile ==
    [heads |-> {PlainHead}, statuses |-> {401, 404, 429, 500},
     validate |-> FewValidateBodies, list |-> FewListBodies, kpi |-> FewKpiBodies,
     locations |-> {NoneV}, refused |-> FALSE, rec |-> FALSE]

ClientProfile ==
    [heads |-> {PlainHead, RedirectedHead}, statuses |-> {401, 403, 404, 429, 500},
     validate |-> ValidateBodies, list |-> FewListBodies, kpi |-> FewKpiBodies,
     locations |-> {NoneV, LOCATION_URL}, refused |-> TRUE, rec |-> TRUE]

\* the answers of the portal to two callers at once: rejections and rate
\* limits, one accepted and one rejected login, one KPI payload
RaceProfile ==
    [heads |-> {PlainHead}, statuses |-> {401, 429},
     validate |-> FewValidateBodies, list |-> FewListBodies,
     kpi |-> {[EmptyBody EXCEPT !.kpi = Kpi(NoneV, "currentPower", "0.19", NoneV, "#5", "#1200")]},
     locations |-> {NoneV}, refused |-> FALSE, rec |-> TRUE]

\* validate-user answers whose status or content type refuses the request
\* while the payload names an invalid-credential code
RefusedWithCode ==
    {Http(s, FALSE, PlainHead, NoneV, [EmptyBody EXCEPT !.code = "USER_PASSWORD_ERROR"]) :
        s \in {429, 500}}
    \cup {Http(200, TRUE, PlainHead, NoneV, [EmptyBody EXCEPT !.code = "#401"])}

Bodies(endpoint, pf) ==
    CASE endpoint = VALIDATE_USER_PATH -> pf.validate
      [] endpoint = STATION_LIST_PATH -> pf.list
      [] endpoint = STATION_REAL_KPI_PATH -> pf.kpi
      [] OTHER -> {EmptyBody}

Locations(endpoint, pf) == IF endpoint = VALIDATE_USER_PATH THEN pf.locations ELSE {NoneV}

\* the responses the portal may give to a request of `endpoint`
Responses(endpoint, pf) ==
    {TransportError}
    \cup {Http(s, FALSE, h, NoneV, EmptyBody) : s \in pf.statuses, h \in pf.heads}
    \cup {Http(s, TRUE, h, NoneV, EmptyBody) : s \in {200, 302}, h \in pf.heads}
    \cup {Http(302, FALSE, h, NoneV, EmptyBody) : h \in pf.heads}
    \cup {Http(200, FALSE, h, l, b) : h \in pf.heads, l \in Locations(endpoint, pf),
                                      b \in Bodies(endpoint, pf)}
    \cup (IF pf.refused /\ endpoint = VALIDATE_USER_PATH THEN RefusedWithCode ELSE {})

(***************************************************************************)
(* The state machine.                                                      *)
(***************************************************************************)
Option(present, ids) == [present |-> present, ids |-> ids]

BaseConfig ==
    [username |-> "user@example.com", password |-> "secret",
     data_host |-> NoneV, options_host |-> NoneV,
     poll_interval_seconds |-> "absent", request_timeout_seconds |-> "absent",
     enabled_plant_ids |-> Option(FALSE, {})]

\* the config entries the coordinator is run with
CoordinatorConfigs ==
    {BaseConfig,
     [BaseConfig EXCEPT !.enabled_plant_ids = Option(TRUE, {P1})],
     [BaseConfig EXCEPT !.enabled_plant_ids = Option(TRUE, {})],
     [BaseConfig EXCEPT !.enabled_plant_ids = Option(TRUE, {"NE=99"})],
     [BaseConfig EXCEPT !.enabled_plant_ids = Option(TRUE, {P1}),
                        !.poll_interval_seconds = "#700"],
     [BaseConfig EXCEPT !.enabled_plant_ids = Option(TRUE, {P2, "NE=99"}),
                        !.poll_interval_seconds = "#10", !.request_timeout_seconds = "#3"],
     [BaseConfig EXCEPT !.enabled_plant_ids = Option(TRUE, {P1}),
                        !.options_host = "https://EU5.fusionsolar.huawei.com/"],
     [BaseConfig EXCEPT !.password = ""]}

\* the config entries the client alone is run with
ClientConfigs ==
    {BaseConfig,
     [BaseConfig EXCEPT !.data_host = "https://EU5.fusionsolar.huawei.com/"],
     [BaseConfig EXCEPT !.password = ""]}

\* host_override of async_setup_entry and of _async_update_data
HostOverride(c) == PyOr(c.options_host, c.data_host)

\* FusionSolarApiClient.__init__ as async_setup_entry calls it
NewApi(c) ==
    LET preferred == IF Truthy(HostOverride(c)) THEN sanitize_host(HostOverride(c)) ELSE NoneV
    IN  [username |-> c.username, password |-> c.password,
         preferred_host |-> preferred,
         effective_host |-> PyOr(preferred, DEFAULT_HOST),
         timeout_seconds |-> PyInt(OptionOr(c.request_timeout_seconds, "#15")).v,
         csrf_token |-> NoneV,
         session_valid |-> FALSE,
         recent_statuses |-> <<>>,
         plant_names |-> EmptyMap]

\* FusionSolarDataUpdateCoordinator.__init__ (last_success_at_utc -1 is None)
NewCoordinator(c) ==
    [failure_count |-> 0, last_success_at_utc |-> -1, known_plants |-> EmptyMap,
     update_interval |-> poll_interval_seconds(c),
     data |-> [isdict |-> FALSE, map |-> EmptyMap],
     phase |-> "idle", selected |-> <<>>, outcome |-> "none", message |-> ""]

NoView == [err |-> FALSE, status |-> 0, html |-> FALSE, location |-> NoneV, body |-> EmptyBody]
View(r) == [err |-> r.err, status |-> r.status, html |-> r.html, location |-> r.location,
            body |-> r.body]
NoLast == [task |-> 0, pc |-> "none", login |-> "none", r |-> NoView, hidx |-> 0, nhosts |-> 0]

\* nothing was handed to the parsing functions
NoCalc == [op |-> "none", items |-> <<>>, payload |-> EmptyBody, power_w |-> NoFloat,
           result |-> Res("none"), plants |-> <<>>,
           endpoint |-> NoneV, allow_auth_retry |-> FALSE, attempt |-> 0, r |-> TransportError,
           k |-> "none", exc |-> NoneV]

\* the history of a task is kept only where it is recorded
Recorded(t, rec) ==
    IF rec THEN t ELSE [t EXCEPT !.hist = <<>>, !.n_target = 0, !.n_reauth = 0, !.steps = <<>>]

\* a new cycle begins: the stamps of the earlier cycles are now in the past
Age(k) ==
    [k EXCEPT !.last_success_at_utc = IF @ = 0 THEN 1 ELSE @,
              !.data.map = [id \in DOMAIN @ |-> [@[id] EXCEPT !.updated_at_utc = 1]]]

\* diagnostics_payload (last_success_at_utc -1 is None)
diagnostics_payload(k) ==
    [failure_count |-> k.failure_count, update_interval_seconds |-> k.update_interval,
     known_plants |-> k.known_plants, last_success_at_utc |-> k.last_success_at_utc]

\* runtime_payload of async_get_config_entry_diagnostics
runtime_payload(a, k) == [api |-> get_debug_state(a), coordinator |-> diagnostics_payload(k)]

\* a gather that returns as soon as one of its calls has raised
Advance_first_failure_ends_gather(c, k, ts) ==
    IF k.phase = "plants" /\ ts[1].pc = "done"
    THEN LET k1 == AfterPlants(c, k, ts[1].result)
         IN  [k |-> k1,
              ts |-> IF k1.phase = "gather"
                     THEN ts \o [i \in 1..Len(k1.selected) |->
                                    NewTask("metrics", k1.selected[i].plant_id)]
                     ELSE ts]
    ELSE IF k.phase = "gather"
            /\ \/ \A i \in 2..Len(ts) : ts[i].pc = "done"
               \/ \E i \in 2..Len(ts) : ts[i].pc = "done" /\ ts[i].result.kind # "ok"
         THEN [k |-> Merge(c, k, [i \in 1..Len(k.selected) |-> ts[i + 1].result]), ts |-> ts]
         ELSE [k |-> k, ts |-> ts]

\* _async_update_data resumes when the call it awaits has ended
Advance(c, k, ts) ==
    IF k.phase = "plants" /\ ts[1].pc = "done"
    THEN LET k1 == AfterPlants(c, k, ts[1].result)
         IN  [k |-> k1,
              ts |-> IF k1.phase = "gather"
                     THEN ts \o [i \in 1..Len(k1.selected) |->
                                    NewTask("metrics", k1.selected[i].plant_id)]
                     ELSE ts]
    ELSE IF k.phase = "gather" /\ \A i \in 2..Len(ts) : ts[i].pc = "done"
         THEN [k |-> Merge(c, k, [i \in 1..Len(k.selected) |-> ts[i + 1].result]), ts |-> ts]
         ELSE [k |-> k, ts |-> ts]

\* The scheduler runs _async_update_data: the client is configured and
\* async_get_plants is awaited.
CycleStart ==
    /\ co.phase = "idle"
    /\ co.failure_count < MaxFailures
    /\ LET a1 == set_preferred_host(
                     set_timeout_seconds(api, request_timeout_seconds(cfg)), HostOverride(cfg))
           st == async_get(a1, "plants", NoneV)
           k0 == [Age(co) EXCEPT !.phase = "plants", !.outcome = "running", !.message = "",
                                 !.selected = <<>>]
           nx == Advance(cfg, k0, <<Recorded(st.t, FALSE)>>)
       IN  /\ api' = st.a
           /\ co' = nx.k
           /\ tasks' = nx.ts
    /\ last' = NoLast
    /\ UNCHANGED <<cfg, calc>>

\* asyncio.gather starts the next async_get_metrics call, in the order of
\* selected_plants.
StartTask(i) ==
    /\ co.phase = "gather"
    /\ i \in 2..Len(tasks)
    /\ tasks[i].pc = "idle"
    /\ \A j \in 2..(i - 1) : tasks[j].pc # "idle"
    /\ LET st == async_get(api, "metrics", tasks[i].pid)
           nx == Advance(cfg, co, [tasks EXCEPT ![i] = Recorded(st.t, FALSE)])
       IN  /\ api' = st.a
           /\ co' = nx.k
           /\ tasks' = nx.ts
    /\ last' = NoLast
    /\ UNCHANGED <<cfg, calc>>

\* The portal answers the request task i waits on.
Respond(i, pf) ==
    /\ i \in 1..Len(tasks)
    /\ tasks[i].pc \notin {"idle", "done"}
    /\ \E r \in Responses(Endpoint(tasks[i]), pf) :
          LET st == Deliver(api, tasks[i], r)
              nx == Advance(cfg, co, [tasks EXCEPT ![i] = Recorded(st.t, pf.rec)])
          IN  /\ api' = WithoutStatusHistory(st.a)
              /\ co' = nx.k
              /\ tasks' = nx.ts
              /\ last' = IF pf.rec
                         THEN [task |-> i, pc |-> tasks[i].pc, login |-> st.login, r |-> View(r),
                               hidx |-> tasks[i].hidx, nhosts |-> Len(tasks[i].hosts)]
                         ELSE NoLast
    /\ UNCHANGED <<cfg, calc>>

Init ==
    /\ cfg \in CoordinatorConfigs
    /\ api = NewApi(cfg)
    /\ tasks = <<>>
    /\ co = NewCoordinator(cfg)
    /\ last = NoLast
    /\ calc = NoCalc

Next ==
    \/ CycleStart
    \/ \E i \in 2..(MaxTasks + 1) : StartTask(i)
    \/ \E i \in 1..(MaxTasks + 1) : Respond(i, CoordinatorProfile)

Spec == Init /\ [][Next]_vars

(***************************************************************************)
(* Properties of the coordinator, checked under Spec.                      *)
(***************************************************************************)
\* the nominal interval N of the entry, and the interval after fc failures
Nominal == poll_interval_seconds(cfg)
Backoff(fc) == Min(MAX_BACKOFF_SECONDS, Nominal * Pow2(fc))

\* in this step async_get_plants ended with `kind`
PlantsEndedWith(kind) ==
    /\ co.phase \in {"idle", "plants"}
    /\ co'.phase # "plants"
    /\ tasks'[1].result.kind = kind

\* in this step asyncio.gather returned and the merge loop ran
GatherEnded == co.phase = "gather" /\ co'.phase = "idle"

MetricsResults == {tasks[i].result.kind : i \in 2..Len(tasks)}

C2_PartialFailureFallsBack ==
    [][GatherEnded =>
        \A i, j \in 2..Len(tasks') :
            ( /\ tasks'[i].pid # tasks'[j].pid
              /\ tasks'[i].result.kind = "ok"
              /\ tasks'[j].result.kind \notin {"ok", "InvalidAuth"}
              /\ co.data.isdict
              /\ tasks'[j].pid \in DOMAIN co.data.map )
            => /\ co'.outcome = "returned"
               /\ co'.data.isdict
               /\ {tasks'[i].pid, tasks'[j].pid} \subseteq DOMAIN co'.data.map
               /\ co'.data.map[tasks'[i].pid] = tasks'[i].result.snap
               /\ co'.data.map[tasks'[i].pid].updated_at_utc = 0
               /\ co'.data.map[tasks'[j].pid] = co.data.map[tasks'[j].pid]]_vars

\* a cycle returned in which P1 was fetched and P2, failing to connect, kept
\* the snapshot of an earlier cycle
C2_Witness ==
    /\ co.phase = "idle" /\ co.outcome = "returned"
    /\ Len(tasks) = 3
    /\ tasks[2].pid = P1 /\ tasks[2].result.kind = "ok"
    /\ tasks[3].pid = P2 /\ tasks[3].result.kind = "CannotConnect"
    /\ co.data.isdict /\ DOMAIN co.data.map = {P1, P2}
    /\ co.data.map[P1].updated_at_utc = 0
    /\ co.data.map[P2].updated_at_utc = 1

\* C3: when the plant-list fetch raises InvalidAuth the cycle raises the
\* re-auth failure, no metrics call is made, and failure_count and the
\* polling interval stay as they were.
C3_PlantListAuthFailure ==
    [][PlantsEndedWith("InvalidAuth") =>
        /\ co'.phase = "idle"
        /\ co'.outcome = "ConfigEntryAuthFailed"
        /\ Len(tasks') = 1
        /\ co'.failure_count = co.failure_count
        /\ co'.update_interval = co.update_interval]_vars

\* the plant list raised InvalidAuth in a cycle that began in backoff
C3_Witness ==
    /\ co.phase = "idle" /\ co.outcome = "ConfigEntryAuthFailed"
    /\ Len(tasks) = 1 /\ tasks[1].result.kind = "InvalidAuth"
    /\ co.failure_count = 2 /\ co.update_interval = 240

\* C4: the polling interval is N while failure_count is 0 and
\* min(600, N * 2^failure_count) otherwise (for N = 60: 120, 240, 480, then
\* 600), and a cycle that returns leaves failure_count 0 and the interval N.
C4_IntervalFollowsFailures ==
    /\ co.update_interval = IF co.failure_count = 0 THEN Nominal ELSE Backoff(co.failure_count)
    /\ cfg.poll_interval_seconds = "absent" =>
          co.update_interval = CASE co.failure_count = 0 -> 60
                                 [] co.failure_count = 1 -> 120
                                 [] co.failure_count = 2 -> 240
                                 [] co.failure_count = 3 -> 480
                                 [] OTHER -> 600
    /\ (co.phase = "idle" /\ co.outcome = "returned") =>
          co.failure_count = 0 /\ co.update_interval = Nominal

\* three failures in a row under the default interval
C4_Witness ==
    /\ cfg.poll_interval_seconds = "absent"
    /\ co.failure_count = 3 /\ co.update_interval = 480

\* C7: when the metrics call of any selected plant raised InvalidAuth the
\* cycle raises the re-auth failure: no merged map replaces the data, and
\* failure_count and the polling interval stay as they were.
C7_MetricsAuthFailure ==
    [][(GatherEnded /\ \E i \in 2..Len(tasks') : tasks'[i].result.kind = "InvalidAuth") =>
        /\ co'.outcome = "ConfigEntryAuthFailed"
        /\ co'.data = co.data
        /\ co'.last_success_at_utc = co.last_success_at_utc
        /\ co'.failure_count = co.failure_count
        /\ co'.update_interval = co.update_interval]_vars

\* P1 was fetched, P2 raised InvalidAuth, and the data of an earlier cycle
\* is still the coordinator's data
C7_Witness ==
    /\ co.phase = "idle" /\ co.outcome = "ConfigEntryAuthFailed"
    /\ Len(tasks) = 3
    /\ tasks[2].result.kind = "ok" /\ tasks[3].result.kind = "InvalidAuth"
    /\ co.data.isdict /\ P1 \in DOMAIN co.data.map
    /\ co.data.map[P1].updated_at_utc = 1

\* C8: when the plant-list fetch raises RateLimited or CannotConnect,
\* failure_count grows by one, the interval becomes min(600, N * 2^failure_count)
\* for the new count, and the cycle raises UpdateFailed.
C8_PlantListBackoff ==
    [][(PlantsEndedWith("RateLimited") \/ PlantsEndedWith("CannotConnect")) =>
        /\ co'.phase = "idle"
        /\ co'.outcome = "UpdateFailed"
        /\ Len(tasks') = 1
        /\ co'.failure_count = co.failure_count + 1
        /\ co'.update_interval = Backoff(co.failure_count + 1)]_vars

\* the plant list was rate-limited for the second time in a row
C8_Witness ==
    /\ co.phase = "idle" /\ co.outcome = "UpdateFailed"
    /\ Len(tasks) = 1 /\ tasks[1].result.kind = "RateLimited"
    /\ co.failure_count = 2 /\ co.update_interval = 240

\* C9: when the plant-list fetch raises EndpointSchemaChanged the cycle raises
\* UpdateFailed and failure_count and the polling interval stay as they were.
C9_PlantListSchemaChange ==
    [][PlantsEndedWith("EndpointSchemaChanged") =>
        /\ co'.phase = "idle"
        /\ co'.outcome = "UpdateFailed"
        /\ co'.message = "FusionSolar endpoint schema changed"
        /\ co'.failure_count = co.failure_count
        /\ co'.update_interval = co.update_interval]_vars

\* the plant list raised EndpointSchemaChanged in a cycle that began in backoff
C9_Witness ==
    /\ co.phase = "idle" /\ co.outcome = "UpdateFailed"
    /\ Len(tasks) = 1 /\ tasks[1].result.kind = "EndpointSchemaChanged"
    /\ co.failure_count = 1 /\ co.update_interval = 120

\* C10: at the end of the merge, if no plant was fetched and none had a
\* previous snapshot the cycle raises UpdateFailed and backs off; otherwise
\* failure_count becomes 0, the interval N, the success time is set to now,
\* and the merged map becomes the coordinator's data.
C10_MergeOutcome ==
    [][(GatherEnded /\ \A i \in 2..Len(tasks') : tasks'[i].result.kind # "InvalidAuth") =>
        LET fetched == {i \in 2..Len(tasks') : tasks'[i].result.kind = "ok"}
            kept == {i \in 2..Len(tasks') :
                        /\ tasks'[i].result.kind # "ok"
                        /\ co.data.isdict
                        /\ tasks'[i].pid \in DOMAIN co.data.map}
        IN  IF fetched \cup kept = {}
            THEN /\ co'.outcome = "UpdateFailed"
                 /\ co'.failure_count = co.failure_count + 1
                 /\ co'.update_interval = Backoff(co.failure_count + 1)
                 /\ co'.data = co.data
                 /\ co'.last_success_at_utc = co.last_success_at_utc
            ELSE /\ co'.outcome = "returned"
                 /\ co'.failure_count = 0
                 /\ co'.update_interval = Nominal
                 /\ co'.last_success_at_utc = 0
                 /\ co'.data.isdict
                 /\ DOMAIN co'.data.map = {tasks'[i].pid : i \in fetched \cup kept}
                 /\ \A i \in fetched : \/ co'.data.map[tasks'[i].pid] = tasks'[i].result.snap
                                       \/ \E j \in (fetched \cup kept) \ {i} :
                                             j > i /\ tasks'[j].pid = tasks'[i].pid]_vars

\* a cycle in backoff fetched a plant and returned: the count is cleared and
\* the success time is this cycle's, while the other plant failed with nothing
\* to fall back on
C10_Witness ==
    /\ co.phase = "idle" /\ co.outcome = "returned"
    /\ Len(tasks) = 3
    /\ tasks[2].result.kind = "ok" /\ tasks[3].result.kind = "EndpointSchemaChanged"
    /\ DOMAIN co.data.map = {P1}
    /\ co.failure_count = 0 /\ co.last_success_at_utc = 0
    /\ co.update_interval = 60

\* C24: while a cycle is in its fan-out there is one get_metrics call per
\* selected plant, in the order of the selection and for that plant's id; a
\* step changes one call at most and never a call that has ended; and the
\* fan-out ends only when every call has ended, whatever the others raised.
C24_OneCallPerPlant ==
    [][co.phase = "gather" =>
          /\ Len(tasks) = Len(co.selected) + 1
          /\ \A i \in 1..Len(co.selected) :
                /\ tasks[i + 1].op = "metrics"
                /\ tasks[i + 1].pid = co.selected[i].plant_id
          /\ Len(tasks') = Len(tasks)
          /\ Cardinality({i \in 1..Len(tasks) : tasks'[i] # tasks[i]}) <= 1
          /\ \A i \in 1..Len(tasks) : tasks[i].pc = "done" => tasks'[i] = tasks[i]
          /\ GatherEnded => \A i \in 2..Len(tasks') : tasks'[i].pc = "done"]_vars

\* the call for P1 was rate-limited and the call for P2, answered after it,
\* gave its snapshot
C24_Witness ==
    /\ co.phase = "idle" /\ co.outcome = "returned"
    /\ Len(tasks) = 3
    /\ tasks[2].pid = P1 /\ tasks[2].result.kind = "RateLimited"
    /\ tasks[3].pid = P2 /\ tasks[3].result.kind = "ok"
    /\ co.data.isdict /\ P2 \in DOMAIN co.data.map
    /\ co.data.map[P2] = tasks[3].result.snap

\* the id-to-name map of a plant list (of two entries with one id, the later)
NamesOf(plants) ==
    [id \in {plants[i].plant_id : i \in 1..Len(plants)} |->
        LET i == CHOOSE i \in 1..Len(plants) :
                    /\ plants[i].plant_id = id
                    /\ \A j \in (i + 1)..Len(plants) : plants[j].plant_id # id
        IN  plants[i].plant_name]

\* C29: when the plant list of a cycle is fetched, known_plants becomes the
\* id-to-name map of the plants of that list, whatever the allow-list selects
\* and whatever was known before, also when nothing is selected; the fan-out
\* and its merge leave it as it is, whatever the metrics calls raise.
C29_KnownPlantsReplaced ==
    [][/\ PlantsEndedWith("ok") => co'.known_plants = NamesOf(tasks'[1].result.plants)
       /\ co.phase = "gather" => co'.known_plants = co.known_plants]_vars

\* the allow-list names a plant the portal does not list: the cycle failed for
\* its empty selection and knows the two plants it discovered
C29_Witness ==
    /\ cfg.enabled_plant_ids.ids = {"NE=99"}
    /\ co.phase = "idle" /\ co.outcome = "UpdateFailed"
    /\ co.message = "No plants selected for polling"
    /\ DOMAIN co.known_plants = {P1, P2}
    /\ co.known_plants[P1] = "Casa Norte"

\* call i ends in this step by raising InvalidAuth on the first answer to its
\* data request: no re-authentication followed that answer
RejectedWithoutReauth(i) ==
    /\ i <= Len(tasks')
    /\ tasks[i].pc = "target" /\ tasks[i].attempt = 0
    /\ tasks'[i].pc = "done" /\ tasks'[i].result.kind = "InvalidAuth"

\* C18 as the specification states it: a cycle raises the re-auth failure only
\* on a confirmed credential failure (a login that was rejected, or a 401/403
\* that persisted after one re-authentication and retry), never on a single
\* answer to a data request that no re-authentication followed.
C18_AsStated ==
    [][(co.outcome = "running" /\ co'.outcome = "ConfigEntryAuthFailed") =>
          \A i \in 1..Len(tasks) : ~RejectedWithoutReauth(i)]_vars

(***************************************************************************)
(* The client alone, called directly by one caller, one call at a time.    *)
(***************************************************************************)
Call(st) ==
    /\ tasks[1].pc \in {"idle", "done"}
    /\ api' = st.a
    /\ tasks' = <<st.t>>
    /\ last' = [NoLast EXCEPT !.task = 1, !.pc = "call", !.login = st.login]
    /\ UNCHANGED <<cfg, co, calc>>

CallGetPlants == Call(async_get(api, "plants", NoneV))

CallGetMetrics(plant_id) == Call(async_get(api, "metrics", plant_id))

CallLogin == Call(async_login(api, [NewTask("login", NoneV) EXCEPT !.ctx = "direct"], NoneV))

CallRefreshSession == Call(async_refresh_session(api, NewTask("refresh", NoneV), "direct"))

InitClient ==
    /\ cfg \in ClientConfigs
    /\ api = NewApi(cfg)
    /\ tasks = <<NoTask>>
    /\ co = NewCoordinator(cfg)
    /\ last = NoLast
    /\ calc = NoCalc

NextClient ==
    \/ CallGetPlants
    \/ \E plant_id \in {P1, P2} : CallGetMetrics(plant_id)
    \/ CallLogin
    \/ CallRefreshSession
    \/ Respond(1, ClientProfile)

SpecClient == InitClient /\ [][NextClient]_vars

(***************************************************************************)
(* Two callers of one client: each makes one call, and the answers to     *)
(* their requests come in any order.                                       *)
(***************************************************************************)
RaceCall(i, st) ==
    /\ tasks[i].pc = "idle"
    /\ api' = st.a
    /\ tasks' = [tasks EXCEPT ![i] = st.t]
    /\ last' = [NoLast EXCEPT !.task = i, !.pc = "call", !.login = st.login]
    /\ UNCHANGED <<cfg, co, calc>>

\* the first caller awaits async_refresh_session
RaceRefreshSession == RaceCall(1, async_refresh_session(api, NewTask("refresh", NoneV), "direct"))

\* caller i awaits async_get_metrics for its own plant
RaceGetMetrics(i) == RaceCall(i, async_get(api, "metrics", <<P1, P2>>[i]))

\* the client is new, or a login has succeeded on it
InitRace ==
    /\ cfg = BaseConfig
    /\ api \in {[NewApi(cfg) EXCEPT !.session_valid = v] : v \in BOOLEAN}
    /\ tasks = <<NoTask, NoTask>>
    /\ co = NewCoordinator(cfg)
    /\ last = NoLast
    /\ calc = NoCalc

NextRace ==
    \/ RaceRefreshSession
    \/ \E i \in {1, 2} : RaceGetMetrics(i)
    \/ \E i \in {1, 2} : Respond(i, RaceProfile)

SpecRace == InitRace /\ [][NextRace]_vars

\* every request is answered or times out (aiohttp.ClientTimeout): a caller
\* that waits on a request is served in the end
SpecRaceFair ==
    /\ SpecRace
    /\ WF_vars(Respond(1, RaceProfile))
    /\ WF_vars(Respond(2, RaceProfile))

(***************************************************************************)
(* One caller that changes the credentials between its calls.              *)
(***************************************************************************)
\* update_credentials(username, password), between two calls
UpdateCredentials ==
    /\ tasks[1].pc \in {"idle", "done"}
    /\ \E password \in {"secret", "hunter2"} :
          api' = update_credentials(api, api.username, password)
    /\ last' = [NoLast EXCEPT !.task = 1, !.pc = "update_credentials"]
    /\ UNCHANGED <<cfg, tasks, co, calc>>

InitCredentials ==
    /\ cfg = BaseConfig
    /\ api = NewApi(cfg)
    /\ tasks = <<NoTask>>
    /\ co = NewCoordinator(cfg)
    /\ last = NoLast
    /\ calc = NoCalc

NextCredentials ==
    \/ CallGetPlants
    \/ \E plant_id \in {P1, P2} : CallGetMetrics(plant_id)
    \/ CallLogin
    \/ UpdateCredentials
    \/ Respond(1, RaceProfile)

SpecCredentials == InitCredentials /\ [][NextCredentials]_vars

(***************************************************************************)
(* The parsing functions and the request primitive alone, each applied    *)
(* once to one input.                                                      *)
(***************************************************************************)
\* the items of a KPI payload whose five numeric fields all resolve
GoodPower == <<"currentPower", "0.19">>
GoodEnergies == <<<<"dailyEnergy", "#5">>, <<"monthEnergy", "#5">>,
                  <<"yearEnergy", "1,5">>, <<"cumulativeEnergy", "#1200">>>>

\* raw power values: those under 3 (which a scale of 1,000,000 keeps within
\* the integers of the model), the larger ones, and those that are no number
SmallPowers == {"0.19", "#2", "#0", "-0.5"}
LargePowers == {"#190", "#999", "#1000", "#1500", "#-2000"}
UnknownRaws == {NoneV, "", "  ", "--", "n/a"}

\* the unit item of the payload: none, or a unit under one of the unit keys
UnitItems ==
    {<<>>}
    \cup {<<<<"powerUnit", u>>>> : u \in {"kW", "KW", " kW ", "MW", "mw", "W", "w", "GW", ""}}
    \cup {<<<<"unit", "kW">>>>, <<<<"activePowerUnit", "W">>>>}

UnitIsMega(u) == u # <<>> /\ u[1][2] \in {"MW", "mw"}

\* payloads that vary the power key, the power value and the unit
PowerInputs ==
    {<<<<k, v>>>> \o u \o GoodEnergies :
        k \in {"currentPower", "CurrentPower", "activePower", "realTimePower", "power", "pac"},
        v \in SmallPowers, u \in UnitItems}
    \cup
    {<<<<k, v>>>> \o u \o GoodEnergies :
        k \in {"currentPower", "CurrentPower", "activePower", "realTimePower", "power", "pac"},
        v \in LargePowers, u \in {x \in UnitItems : ~UnitIsMega(x)}}

\* payloads in which one of the five numeric fields is absent, unknown or
\* given twice, under two of its keys
FieldInputs ==
    {<<GoodPower>> \o [i \in 1..4 |-> IF i = f THEN <<GoodEnergies[i][1], raw>>
                                       ELSE GoodEnergies[i]] :
        f \in 1..4, raw \in UnknownRaws \cup {" 7 "}}
    \cup {<<GoodPower>> \o SelectSeq(GoodEnergies, LAMBDA e : e # GoodEnergies[f]) : f \in 1..4}
    \cup {<<<<"currentPower", raw>>>> \o GoodEnergies : raw \in UnknownRaws}
    \cup {GoodEnergies}
    \cup {<<GoodPower, <<"dailyEnergy", raw>>, <<"energyToday", "#5">>>> \o Tail(GoodEnergies) :
            raw \in {NoneV, "", "--"}}
    \cup {<<<<"stationName", "Casa KPI">>, GoodPower>> \o GoodEnergies}

KpiInputs == PowerInputs \cup FieldInputs

\* station-list payloads: up to MaxEntries entries, under data.list or under
\* another key, with and without an id and a name
ListEntries == {[dn |-> dn, name |-> name] : dn \in {NoneV, "  ", P1, P2},
                                             name \in {NoneV, "Casa"}}

ListInputs ==
    {[EmptyBody EXCEPT !.shape = shape, !.entries = es] :
        shape \in {"list", "rows"},
        es \in UNION {[1..n -> ListEntries] : n \in 0..MaxEntries}}

\* the endpoints the client requests
Endpoints ==
    {VALIDATE_USER_PATH, SSO_READY_PATH, LOGIN_REDIRECT_PATH, VERIFY_CODE_CHECK_PATH,
     LIST_UNFORBIDDEN_SERVER_PATH, KEEPALIVE_PATH, STATION_LIST_PATH, STATION_REAL_KPI_PATH}

\* the statuses of the answers handed to the request primitive
Statuses == {200, 204, 302, 399, 400, 401, 403, 404, 418, 429, 499, 500, 503}

\* one pass of _request_raw: the endpoint, the flags of the pass, the answer
RequestInputs ==
    {[NoCalc EXCEPT !.endpoint = e, !.allow_auth_retry = allow, !.attempt = n, !.r = r] :
        e \in Endpoints, allow \in BOOLEAN, n \in {0, 1},
        r \in {TransportError}
               \cup {Http(s, html, h, NoneV, EmptyBody) :
                        s \in Statuses, html \in BOOLEAN,
                        h \in {PlainHead, RedirectedHead} \cup TokenHeads}}

InitParse ==
    /\ cfg = BaseConfig
    /\ api = NewApi(cfg)
    /\ tasks = <<>>
    /\ co = NewCoordinator(cfg)
    /\ last = NoLast
    /\ calc \in {[NoCalc EXCEPT !.items = items] : items \in KpiInputs}
                \cup {[NoCalc EXCEPT !.payload = payload] : payload \in ListInputs}
                \cup RequestInputs

Applied(c) ==
    /\ calc.op = "none"
    /\ calc' = c
    /\ UNCHANGED <<cfg, api, tasks, co, last>>

\* _parse_power_w(payload)
ParsePowerW ==
    /\ calc.items # <<>>
    /\ Applied([calc EXCEPT !.op = "parse_power_w",
                            !.power_w = parse_power_w(Combined(calc.items))])

\* async_get_metrics, from the response of station-real-kpi on
GetMetrics ==
    /\ calc.items # <<>>
    /\ Applied([calc EXCEPT
                  !.op = "get_metrics",
                  !.result = FinishMetrics(api, NewTask("metrics", P1),
                                 [body |-> [EmptyBody EXCEPT !.kpi = Combined(calc.items)]]
                             ).t.result])

\* _parse_station_list(payload)
ParseStationList ==
    /\ calc.payload.shape # "none"
    /\ Applied([calc EXCEPT !.op = "parse_station_list",
                            !.plants = parse_station_list(calc.payload)])

\* one pass of the loop of _request_raw, on the default host
RequestRaw ==
    /\ calc.op = "none"
    /\ calc.endpoint # NoneV
    /\ LET out == request_raw(api, calc.endpoint, api.effective_host, calc.allow_auth_retry,
                              calc.attempt, calc.r)
       IN  /\ api' = out.a
           /\ calc' = [calc EXCEPT !.op = "request_raw", !.k = out.k, !.exc = out.exc]
    /\ UNCHANGED <<cfg, tasks, co, last>>

NextParse ==
    \/ ParsePowerW
    \/ GetMetrics
    \/ ParseStationList
    \/ RequestRaw

SpecParse == InitParse /\ [][NextParse]_vars

(***************************************************************************)
(* The key lookup applied once to a tree.                                  *)
(***************************************************************************)
\* the keys of the dicts: two spellings of a candidate, a later candidate, and
\* a key that is no candidate
TreeKeys == {"currentPower", "CurrentPower", "activePower", "data"}

TreeLeaves == {Scalar(v) : v \in {NoneV, "", "#5", "#7"}} \cup {List(<<>>)}

\* dicts of one item, whose value holds no dict
InnerDicts ==
    {Dict(<<It(k, v)>>) : k \in {"currentPower", "data"}, v \in {Scalar("#9"), Scalar("")}}

\* dicts of at most two items with values that hold no dict
FlatTrees ==
    {Dict(<<>>)}
    \cup {Dict(<<It(k, v)>>) : k \in TreeKeys, v \in TreeLeaves}
    \cup {Dict(<<It(k[1], v1), It(k[2], v2)>>) :
             k \in {p \in TreeKeys \X {"activePower", "CurrentPower"} : p[1] # p[2]},
             v1 \in TreeLeaves, v2 \in TreeLeaves}

\* dicts and lists that hold dicts, before and after an item of their own
NestedTrees ==
    {Dict(<<It("data", d), It(k, v)>>) :
        d \in InnerDicts, k \in {"CurrentPower", "other"}, v \in {Scalar("#5"), Scalar(NoneV)}}
    \cup {Dict(<<It(k, v), It("payload", List(<<d>>))>>) :
        d \in InnerDicts, k \in {"activePower", "other"}, v \in {Scalar("#5"), Scalar("")}}
    \cup {List(<<d1, d2>>) : d1 \in InnerDicts, d2 \in InnerDicts}
    \cup {Dict(<<It("data", Dict(<<It("list", List(<<d>>))>>)), It("payload", e)>>) :
        d \in InnerDicts, e \in InnerDicts}
    \cup {Dict(<<It("currentPower", d), It("activePower", Scalar("#5"))>>) : d \in InnerDicts}

TreeInputs == {Scalar("#5")} \cup FlatTrees \cup NestedTrees

NoFind == [op |-> "none", tree |-> Scalar(NoneV), candidate_keys |-> <<>>, result |-> NotFound]

InitFind ==
    /\ cfg = BaseConfig
    /\ api = NewApi(cfg)
    /\ tasks = <<>>
    /\ co = NewCoordinator(cfg)
    /\ last = NoLast
    /\ calc \in {[NoFind EXCEPT !.tree = tree, !.candidate_keys = POWER_KEYS] :
                    tree \in TreeInputs}

\* _find_value_by_keys(payload, candidate_keys, with_key=True)
FindValueByKeys ==
    /\ calc.op = "none"
    /\ calc' = [calc EXCEPT
                  !.op = "find_value_by_keys",
                  !.result = find_value_by_keys_tree(calc.tree, calc.candidate_keys)]
    /\ UNCHANGED <<cfg, api, tasks, co, last>>

NextFind == FindValueByKeys

SpecFind == InitFind /\ [][NextFind]_vars

RECURSIVE MatchesInOrder(_, _)
RECURSIVE MatchesOfAll(_, _)
\* the matches of the trees of a sequence, one tree after the other
MatchesOfAll(children, candidate_keys) ==
    IF children = <<>> THEN <<>>
    ELSE MatchesInOrder(Head(children), candidate_keys)
            \o MatchesOfAll(Tail(children), candidate_keys)

\* the items <<key, value>> of a tree under a candidate key, in whatever case,
\* with a value that is neither None nor "": those of the tree itself in the
\* order of its items, then those of its children, child by child
MatchesInOrder(tree, candidate_keys) ==
    LET lowered == {Lower(candidate_keys[i]) : i \in 1..Len(candidate_keys)}
    IN  IF tree.t = "dict"
        THEN SelectSeq(tree.items,
                       LAMBDA item : /\ Lower(item.key) \in lowered
                                     /\ item.value # Scalar(NoneV)
                                     /\ item.value # Scalar(""))
             \o MatchesOfAll([i \in 1..Len(tree.items) |-> tree.items[i].value], candidate_keys)
        ELSE IF tree.t = "list" THEN MatchesOfAll(tree.items, candidate_keys)
        ELSE <<>>

\* C31: the key search gives the first item, in the order own items then
\* children depth-first, whose key is a candidate in whatever case and whose
\* value is neither None nor ""; an item of the tree itself wins over every
\* item of its children; when there is no such item the result is "not found".
C31_FirstMatchOwnKeysFirst ==
    calc.op = "find_value_by_keys" =>
        LET matches == MatchesInOrder(calc.tree, calc.candidate_keys)
        IN  /\ matches = <<>> => ~calc.result.found
            /\ matches # <<>> =>
                  /\ calc.result.found
                  /\ calc.result.key = matches[1].key
                  /\ calc.result.value = matches[1].value
            /\ (calc.tree.t = "dict" /\ calc.result.found /\
                   \E i \in 1..Len(calc.tree.items) :
                      /\ Lower(calc.tree.items[i].key) \in {"currentpower", "activepower"}
                      /\ calc.tree.items[i].value \notin {Scalar(NoneV), Scalar("")})
                 => \E i \in 1..Len(calc.tree.items) :
                       /\ calc.result.key = calc.tree.items[i].key
                       /\ calc.result.value = calc.tree.items[i].value

\* a dict holds a candidate key in a nested dict, then the key in another case
\* among its own items: the own item is found
C31_Witness ==
    /\ calc.op = "find_value_by_keys"
    /\ calc.tree = Dict(<<It("data", Dict(<<It("currentPower", Scalar("#9"))>>)),
                          It("CurrentPower", Scalar("#5"))>>)
    /\ calc.result = [found |-> TRUE, value |-> Scalar("#5"), key |-> "CurrentPower"]

(***************************************************************************)
(* Properties of the client, checked under SpecClient.                     *)
(***************************************************************************)
\* the first answer to the target request of task t was a 401 or a 403, the
\* request being a retryable one made with stored credentials
FirstAttemptRejected(t) ==
    /\ t.op \in {"plants", "metrics"}
    /\ Len(t.hist) >= 1
    /\ t.hist[1] \in {401, 403}
    /\ Truthy(api.username) /\ Truthy(api.password)

\* C1: for a request to a non-login endpoint with auth retry allowed and
\* stored credentials, a 401/403 on the first attempt triggers exactly one
\* re-authentication; if the re-authentication returns, the same request is
\* retried exactly once, and if it raises, its error ends the call with no
\* retry; a 401/403 on the retry raises InvalidAuth, and there is never a
\* third attempt or a second re-authentication.
C1_OneReauthOneRetry ==
    \A i \in 1..Len(tasks) :
        LET t == tasks[i]
        IN  FirstAttemptRejected(t) =>
              /\ t.n_reauth = 1
              /\ t.n_target <= 2
              /\ Len(t.hist) <= 2
              /\ t.pc = "target" => (t.n_target = 2 /\ Len(t.hist) = 1)
              /\ t.n_target = 2 => t.pc \in {"target", "done"}
              /\ (t.pc = "done" /\ t.n_target = 1) =>
                    (last.login = "raised" /\ t.result.kind # "ok")
              /\ (t.pc = "done" /\ t.n_target = 2) => Len(t.hist) = 2
              /\ (Len(t.hist) = 2 /\ t.hist[2] \in {401, 403}) =>
                    (t.pc = "done" /\ t.result.kind = "InvalidAuth")

\* the first attempt got a 401, the session was re-established, and the one
\* retry got a 403
C1_Witness ==
    /\ tasks[1].op = "metrics" /\ tasks[1].pc = "done"
    /\ tasks[1].hist = <<401, 403>>
    /\ tasks[1].n_target = 2 /\ tasks[1].n_reauth = 1
    /\ tasks[1].result.kind = "InvalidAuth"

\* C1 as stated: every call whose first attempt got a 401/403 ends after
\* exactly one re-authentication and exactly one retry.
C1_AsStated ==
    \A i \in 1..Len(tasks) :
        LET t == tasks[i]
        IN  (FirstAttemptRejected(t) /\ t.pc = "done") =>
              /\ t.n_reauth = 1
              /\ t.n_target = 2
              /\ (Len(t.hist) = 2 /\ t.hist[2] \in {401, 403}) => t.result.kind = "InvalidAuth"

\* the last step delivered a validate-user answer whose payload names one of
\* the invalid-credential codes
InvalidCodeAnswered ==
    /\ last.pc = "validate"
    /\ ~last.r.err
    /\ last.r.body.isdict
    /\ last.r.body.code \in {"#401", "401", "#403", "403", "#100001", "100001",
                             "#100002", "100002", "USER_PASSWORD_ERROR", "USER_NOT_EXIST"}

\* the answer was one _request_raw hands back to async_login: its status is
\* below 400 and it is not an HTML page
HandedToLogin == last.r.status < 400 /\ ~(last.r.status = 200 /\ last.r.html)

LoginRaisedInvalidAuth ==
    /\ last.login = "raised"
    /\ tasks[last.task].pc = "done"
    /\ tasks[last.task].result.kind = "InvalidAuth"

\* C5: for every validate-user answer that is handed back to async_login, whose
\* payload names a code of the invalid-credential set and signals no
\* verification-code challenge, login raises InvalidAuth and sends no request
\* to a further host candidate.
C5_InvalidCodeEndsLogin ==
    (InvalidCodeAnswered /\ HandedToLogin /\ ~Truthy(last.r.body.verifyCodeCreate))
        => LoginRaisedInvalidAuth

\* the first of two host candidates answered with the integer code 100002
C5_Witness ==
    /\ InvalidCodeAnswered /\ HandedToLogin
    /\ last.r.body.code = "#100002"
    /\ last.hidx = 1 /\ last.nhosts = 2
    /\ LoginRaisedInvalidAuth

\* C5 as stated: every validate-user payload whose code is in the
\* invalid-credential set makes login raise InvalidAuth.
C5_AsStated == InvalidCodeAnswered => LoginRaisedInvalidAuth

Handshake == <<"validate", "sso", "redirect">>

\* C6: the session is marked valid only in the step in which the login
\* redirect completes, after validate-user and SSO-ready completed before it;
\* when async_login returns the session is valid, and when it raises it has
\* not set the flag to valid.
C6_ValidOnlyAfterHandshake ==
    /\ [](last.login = "returned" =>
            /\ api.session_valid
            /\ last.pc = "redirect"
            /\ tasks[last.task].steps = Handshake)
    /\ [][(~api.session_valid /\ api'.session_valid) =>
            /\ last'.login = "returned"
            /\ last'.pc = "redirect"
            /\ ~last'.r.err /\ last'.r.status < 400
            /\ tasks'[last'.task].steps = Handshake]_vars
    /\ [][last'.login = "raised" => (api'.session_valid => api.session_valid)]_vars

\* a direct login went through the three requests and returned
C6_Witness ==
    /\ last.login = "returned" /\ last.pc = "redirect"
    /\ tasks[1].op = "login" /\ tasks[1].pc = "done" /\ tasks[1].result.kind = "ok"
    /\ tasks[1].steps = Handshake
    /\ api.session_valid

(***************************************************************************)
(* Properties of the parsing functions, checked under SpecParse.           *)
(***************************************************************************)
\* the raw values that are numbers
NumericRaws == {"#0", "#2", "#5", "#190", "#999", "#1000", "#1200", "#1500", "#-2000",
                "0.19", "-0.5", " 7 ", "1,5"}

\* the field with these keys is given by the payload as a number
Resolved(keys) ==
    /\ find_value_by_keys(calc.items, keys).found
    /\ find_value_by_keys(calc.items, keys).value \in NumericRaws

AllResolved ==
    \A keys \in {POWER_KEYS, ENERGY_TODAY_KEYS, ENERGY_MONTH_KEYS, ENERGY_YEAR_KEYS,
                 ENERGY_TOTAL_KEYS} : Resolved(keys)

\* C12: async_get_metrics returns a snapshot exactly when the power and the
\* four energies each resolve to a number; when one of them is missing, null,
\* empty or "--" it raises EndpointSchemaChanged and gives no snapshot, and
\* "--" is never read as zero.
C12_SnapshotNeedsAllFive ==
    calc.op = "get_metrics" =>
        /\ AllResolved <=> calc.result.kind = "ok"
        /\ ~AllResolved => calc.result = Res("EndpointSchemaChanged")
        /\ AllResolved =>
              /\ calc.result.snap.plant_id = P1
              /\ calc.result.snap.energy_today_kwh =
                    to_float(find_value_by_keys(calc.items, ENERGY_TODAY_KEYS).value).v
              /\ calc.result.snap.energy_total_kwh =
                    to_float(find_value_by_keys(calc.items, ENERGY_TOTAL_KEYS).value).v

\* the payload gave "--" for today's energy, all else being numbers, and
\* async_get_metrics raised
C12_Witness ==
    /\ calc.op = "get_metrics"
    /\ find_value_by_keys(calc.items, ENERGY_TODAY_KEYS).value = "--"
    /\ \A keys \in {POWER_KEYS, ENERGY_MONTH_KEYS, ENERGY_YEAR_KEYS, ENERGY_TOTAL_KEYS} :
          Resolved(keys)
    /\ calc.result = Res("EndpointSchemaChanged")

\* the power the payload gives, and the unit it gives, lower-cased
PowerItem == find_value_by_keys(calc.items, POWER_KEYS)
UnitItem == find_value_by_keys(calc.items, POWER_UNIT_KEYS)
UnitGiven == Lower(to_str(UnitItem.value))
PowerGiven == to_float(PowerItem.value).v

\* C13 as stated: for every power key and every power value v, when a unit
\* is given the normalized power is v*1000 for kW, v*1,000,000 for MW and v
\* for W, the unit being compared without regard to case.
C13_AsStated ==
    ( /\ calc.op = "parse_power_w"
      /\ PowerItem.found /\ PowerItem.value \in NumericRaws
      /\ UnitItem.found /\ UnitGiven \in {"kw", "mw", "w"} )
    => calc.power_w = Float(PowerGiven * (CASE UnitGiven = "kw" -> 1000
                                            [] UnitGiven = "mw" -> 1000000
                                            [] OTHER -> 1))

\* C14 as stated: when no unit is found, a power under a known power key is
\* scaled by 1000 if its magnitude is below 1000 and is left unscaled
\* otherwise, for every known power key and every magnitude.
C14_AsStated ==
    ( /\ calc.op = "parse_power_w"
      /\ PowerItem.found /\ PowerItem.value \in NumericRaws
      /\ ~UnitItem.found )
    => calc.power_w = IF Abs(PowerGiven) < 1000 * 1000 THEN Float(PowerGiven * 1000)
                      ELSE Float(PowerGiven)

\* the entries of the payload that hold an id, in the order of the payload
EntriesWithId == SelectSeq(calc.payload.entries, LAMBDA e : e.dn \in {P1, P2})

\* what the strict schema yields: the entries with an id under data.list
StrictEntries == IF calc.payload.shape = "list" THEN EntriesWithId ELSE <<>>

\* C15: when data.list[] holds at least one entry with an id, the plant list
\* is one PlantInfo per such entry, in the order of the payload; only when it
\* holds none is the tree walked, and then each plant id comes out at most
\* once.
C15_StrictThenFallback ==
    calc.op = "parse_station_list" =>
        /\ StrictEntries # <<>> =>
              /\ Len(calc.plants) = Len(StrictEntries)
              /\ \A i \in 1..Len(StrictEntries) :
                    /\ calc.plants[i].plant_id = StrictEntries[i].dn
                    /\ calc.plants[i].plant_name =
                          IF StrictEntries[i].name = NoneV THEN StrictEntries[i].dn
                          ELSE StrictEntries[i].name
        /\ StrictEntries = <<>> =>
              /\ \A i, j \in 1..Len(calc.plants) :
                    calc.plants[i].plant_id = calc.plants[j].plant_id => i = j
              /\ {calc.plants[i].plant_id : i \in 1..Len(calc.plants)}
                    = {EntriesWithId[i].dn : i \in 1..Len(EntriesWithId)}

\* three rows outside data.list, the first and the last of the same plant:
\* the walk gave two plants
C15_Witness ==
    /\ calc.op = "parse_station_list"
    /\ calc.payload.shape = "rows"
    /\ Len(calc.payload.entries) = 3
    /\ calc.payload.entries[1].dn = P2
    /\ calc.payload.entries[2].dn = P1
    /\ calc.payload.entries[3].dn = P2
    /\ Len(calc.plants) = 2
    /\ calc.plants[1].plant_id = P2 /\ calc.plants[2].plant_id = P1

(***************************************************************************)
(* Properties of the request primitive, checked under SpecParse.           *)
(***************************************************************************)
Raised(exc) == calc.k = "raise" /\ calc.exc = exc

\* the answer is a 200 with an HTML content type to an endpoint whose content
\* type the primitive looks at: every REST endpoint but login-redirect
HtmlChecked ==
    /\ ~calc.r.err /\ calc.r.status = 200 /\ calc.r.html
    /\ StartsWithRest(calc.endpoint)
    /\ calc.endpoint # LOGIN_REDIRECT_PATH

\* the classification of the statuses from 400 on, and of the transport errors
ErrorsClassified ==
    /\ calc.r.err => Raised("CannotConnect")
    /\ ~calc.r.err /\ calc.r.status = 429 => Raised("RateLimited")
    /\ ~calc.r.err /\ calc.r.status >= 500 => Raised("CannotConnect")
    /\ ~calc.r.err /\ calc.r.status \in (400..499) \ {401, 403, 429} =>
          IF calc.endpoint = VALIDATE_USER_PATH THEN Raised("InvalidAuth")
          ELSE Raised("CannotConnect")

\* C16: the request primitive raises RateLimited on 429, CannotConnect on a
\* status from 500 on, on a timeout and on a transport error, CannotConnect
\* on the other statuses of 400-499 apart from 401 and 403 (InvalidAuth on
\* validate-user); a status below 400 returns the response, unless it is a 200
\* with an HTML content type to a REST endpoint other than login-redirect.
C16_StatusClassification ==
    calc.op = "request_raw" =>
        /\ ErrorsClassified
        /\ ~calc.r.err /\ calc.r.status < 400 /\ ~HtmlChecked => calc.k = "return"

\* a 404 to validate-user raised InvalidAuth
C16_Witness ==
    /\ calc.op = "request_raw"
    /\ calc.endpoint = VALIDATE_USER_PATH
    /\ ~calc.r.err /\ calc.r.status = 404
    /\ Raised("InvalidAuth")

\* C16 as the specification states it: every status below 400 returns the
\* response.
C16_AsStated ==
    calc.op = "request_raw" =>
        /\ ErrorsClassified
        /\ ~calc.r.err /\ calc.r.status < 400 => calc.k = "return"

\* C17: a 200 with an HTML content type to a REST endpoint other than
\* login-redirect is never returned: it raises CannotConnect on validate-user
\* and InvalidAuth on the others.
C17_HtmlIsFailure ==
    calc.op = "request_raw" /\ HtmlChecked =>
        IF calc.endpoint = VALIDATE_USER_PATH THEN Raised("CannotConnect")
        ELSE Raised("InvalidAuth")

\* an HTML page came as the answer of keep-alive and raised InvalidAuth
C17_Witness ==
    /\ calc.op = "request_raw"
    /\ calc.endpoint = KEEPALIVE_PATH
    /\ HtmlChecked
    /\ Raised("InvalidAuth")

\* C17 as the specification states it: on every REST endpoint.
C17_AsStated ==
    /\ calc.op = "request_raw"
    /\ ~calc.r.err /\ calc.r.status = 200 /\ calc.r.html
    /\ StartsWithRest(calc.endpoint)
    => IF calc.endpoint = VALIDATE_USER_PATH THEN Raised("CannotConnect")
       ELSE Raised("InvalidAuth")

(***************************************************************************)
(* The host candidates of the login, checked under SpecClient.             *)
(***************************************************************************)
\* async_login is entered in this step and reaches its first probe
LoginEntered == tasks'[1].pc = "probe1" /\ tasks'[1].hidx = 1

\* the place of a host among the three sources of the candidates
Rank(a, host) ==
    IF host = a.preferred_host THEN 1 ELSE IF host = a.effective_host THEN 2 ELSE 3

\* hosts holds the non-empty ones of preferred, effective and default host,
\* each once, in that order
CandidatesInOrder(hosts, a) ==
    /\ {hosts[i] : i \in 1..Len(hosts)}
          = {a.preferred_host, a.effective_host, DEFAULT_HOST} \ {NoneV, ""}
    /\ \A i, j \in 1..Len(hosts) : i < j => Rank(a, hosts[i]) < Rank(a, hosts[j])

\* validate-user is answered in this step by a connection-class failure
ValidateFailedToConnect ==
    /\ tasks[1].pc = "validate"
    /\ last'.pc = "validate"
    /\ \/ last'.r.err
       \/ last'.r.status = 429
       \/ last'.r.status >= 500
       \/ last'.r.status = 200 /\ last'.r.html

\* C20: the login takes its candidates in the order preferred, effective,
\* default host, without the empty ones and the duplicates; a connection-class
\* failure of validate-user moves on to the next candidate, never back, and
\* after the last candidate the login raises CannotConnect.
C20_CandidatesInOrderOnce ==
    [][/\ LoginEntered => CandidatesInOrder(tasks'[1].hosts, api')
       /\ ValidateFailedToConnect =>
             IF tasks[1].hidx < Len(tasks[1].hosts)
             THEN /\ tasks'[1].pc = "probe1"
                  /\ tasks'[1].hosts = tasks[1].hosts
                  /\ tasks'[1].hidx = tasks[1].hidx + 1
             ELSE /\ tasks'[1].pc = "done"
                  /\ tasks'[1].result.kind = "CannotConnect"
                  /\ last'.login = "raised"
       /\ (tasks[1].pc \in {"probe1", "probe2"} /\ tasks'[1].pc \in {"probe2", "validate"}) =>
             /\ tasks'[1].hosts = tasks[1].hosts
             /\ tasks'[1].hidx = tasks[1].hidx]_vars

\* validate-user failed to connect on the third of three candidates and the
\* login raised CannotConnect
C20_Witness ==
    /\ tasks[1].pc = "done" /\ tasks[1].result.kind = "CannotConnect"
    /\ last.pc = "validate" /\ last.login = "raised"
    /\ last.r.status = 429
    /\ last.hidx = 3 /\ last.nhosts = 3

(***************************************************************************)
(* The diagnostics, checked under SpecParse.                               *)
(***************************************************************************)
\* the clients that differ from a in the password and in the stored CSRF
\* token at most
Twins(a) ==
    {[a EXCEPT !.password = p, !.csrf_token = c] :
        p \in {"secret", "hunter2"}, c \in {NoneV, "tok0", "tok1"}}

\* C19: the diagnostics of a client and of one that differs from it in the
\* password and in the stored CSRF token only are the same, before a request
\* and after the same request got the same answer.
C19_DiagnosticsHideSecrets ==
    calc.endpoint # NoneV =>
        \A tw \in Twins(NewApi(cfg)) :
            LET after == request_raw(tw, calc.endpoint, tw.effective_host,
                                     calc.allow_auth_retry, calc.attempt, calc.r).a
            IN  runtime_payload(IF calc.op = "request_raw" THEN after ELSE tw, co)
                   = runtime_payload(api, co)

\* an answer with a CSRF token in its header was recorded in the recent
\* statuses, and the client keeps the token
C19_Witness ==
    /\ calc.op = "request_raw"
    /\ calc.endpoint = KEEPALIVE_PATH
    /\ calc.r.csrf_header = "tokH"
    /\ api.csrf_token = "tokH"
    /\ api.password = "secret"
    /\ get_debug_state(api).recent_statuses = <<[endpoint |-> KEEPALIVE_PATH, status |-> 200]>>

(***************************************************************************)
(* The classification of the validate-user payload, checked under          *)
(* SpecClient.                                                             *)
(***************************************************************************)
\* the last step delivered a validate-user answer that _request_raw handed
\* back to async_login
ValidateReturned == last.pc = "validate" /\ ~last.r.err /\ HandedToLogin

\* the login ended in the last step by raising kind
LoginRaised(kind) ==
    /\ last.login = "raised"
    /\ tasks[last.task].pc = "done"
    /\ tasks[last.task].result.kind = kind

\* the payload is a structured success: a dict whose code is 0 or "0"
StructuredSuccess(b) == b.isdict /\ b.code \in {"0", "#0"}

\* the payload signals a verification-code challenge
Challenge(b) == b.isdict /\ b.verifyCodeCreate = "true"

\* the payload matches an invalid-credential code or message pattern
RejectsCredentials(b) ==
    /\ b.isdict
    /\ \/ b.code \in {"#401", "401", "#403", "403", "#100001", "100001",
                      "#100002", "100002", "USER_PASSWORD_ERROR", "USER_NOT_EXIST"}
       \/ b.code = NoneV /\ b.errorCode \in {"USER_PASSWORD_ERROR", "USER_NOT_EXIST"}
       \/ b.message = "password invalid"

\* no ticket in the payload, in its redirect URL or in the response headers
NoTicket(r) ==
    /\ r.body.ticket = NoneV
    /\ r.body.redirectURL = NoneV
    /\ r.location = NoneV

\* C21: a validate-user answer handed back to the login that is no structured
\* success raises CannotConnect when it signals a verification-code challenge,
\* else InvalidAuth when it matches an invalid-credential code or message,
\* else EndpointSchemaChanged; a success without a ticket in the payload, in
\* its redirect URL and in the headers raises EndpointSchemaChanged, and a
\* success with a ticket goes on to the SSO-ready request.
C21_ValidateClassification ==
    ValidateReturned =>
        LET b == last.r.body
        IN  IF ~StructuredSuccess(b)
            THEN IF Challenge(b) THEN LoginRaised("CannotConnect")
                 ELSE IF RejectsCredentials(b) THEN LoginRaised("InvalidAuth")
                 ELSE LoginRaised("EndpointSchemaChanged")
            ELSE IF NoTicket(last.r) THEN LoginRaised("EndpointSchemaChanged")
                 ELSE tasks[last.task].pc = "sso" /\ last.login = "none"

\* validate-user answered with code 0 and no ticket anywhere
C21_Witness ==
    /\ ValidateReturned
    /\ last.r.body.code = "#0"
    /\ NoTicket(last.r)
    /\ LoginRaised("EndpointSchemaChanged")

(***************************************************************************)
(* async_refresh_session, checked under SpecClient.                        *)
(***************************************************************************)
\* async_refresh_session is called in this step
RefreshCalled == last'.pc = "call" /\ tasks'[1].op = "refresh"

\* the keep-alive request is answered in this step
KeepaliveAnswered == tasks[1].pc = "keepalive" /\ last'.pc = "keepalive"

\* the step enters async_login: it reaches the first probe of the first host
\* candidate, or raises for want of credentials
LoginBegun ==
    \/ tasks'[1].pc = "probe1" /\ tasks'[1].hidx = 1
    \/ /\ ~(Truthy(api'.username) /\ Truthy(api'.password))
       /\ tasks'[1].pc = "done" /\ tasks'[1].result.kind = "InvalidAuth"
       /\ last'.login = "raised"

\* C22: refresh_session sends the keep-alive request when the session is
\* marked valid and goes to the login otherwise; a keep-alive answer that is
\* no error ends the refresh with the session valid and without a login; a
\* 401, a 403 or an HTML page marks the session invalid and the login follows;
\* a connection error, a rate limit or another error status leads to the
\* login as well.
C22_RefreshSession ==
    [][/\ RefreshCalled =>
             IF api.session_valid THEN tasks'[1].pc = "keepalive" ELSE LoginBegun
       /\ KeepaliveAnswered =>
             LET r == last'.r
             IN  IF ~r.err /\ r.status < 400 /\ ~(r.status = 200 /\ r.html)
                 THEN /\ tasks'[1].pc = "done" /\ tasks'[1].result.kind = "ok"
                      /\ last'.login = "none"
                      /\ api'.session_valid
                 ELSE IF ~r.err /\ (r.status \in {401, 403} \/ r.status = 200)
                 THEN ~api'.session_valid /\ LoginBegun
                 ELSE LoginBegun]_vars

\* the keep-alive request got a 401: the session is invalid and the login has
\* reached its first probe
C22_Witness ==
    /\ last.pc = "keepalive" /\ last.r.status = 401
    /\ tasks[1].op = "refresh" /\ tasks[1].pc = "probe1"
    /\ ~api.session_valid

(***************************************************************************)
(* The propagation of the errors of the requests, checked under SpecClient.*)
(***************************************************************************)
\* the error the request primitive raises on the answer delivered in this
\* step ("none" when it returns the answer, or re-authenticates on a 401/403)
ErrorArising ==
    LET r == last'.r
        pc == last'.pc
        retried == /\ pc = "target" /\ tasks[1].attempt = 0
                   /\ Truthy(api.username) /\ Truthy(api.password)
    IN  CASE r.err -> "CannotConnect"
          [] ~r.err /\ r.status \in {401, 403} -> IF retried THEN "none" ELSE "InvalidAuth"
          [] ~r.err /\ r.status = 429 -> "RateLimited"
          [] ~r.err /\ r.status >= 500 -> "CannotConnect"
          [] ~r.err /\ r.status \in (400..499) \ {401, 403, 429} ->
                IF pc = "validate" THEN "InvalidAuth" ELSE "CannotConnect"
          [] ~r.err /\ r.status = 200 /\ r.html /\ pc # "redirect" ->
                IF pc = "validate" THEN "CannotConnect" ELSE "InvalidAuth"
          [] OTHER -> "none"

\* a request is answered in this step
Answered(pcs) == tasks[1].pc \in pcs /\ last'.pc = tasks[1].pc

\* the call ends in this step by raising the error that arose in it
Propagated ==
    /\ tasks'[1].pc = "done"
    /\ tasks'[1].result.kind = ErrorArising

\* C23: an error that arises in the SSO-ready, login-redirect or data request,
\* and an InvalidAuth that arises in validate-user, reaches the caller as an
\* error of the same kind.
C23_ErrorsPropagate ==
    [][(/\ ErrorArising # "none"
        /\ \/ Answered({"sso", "redirect", "target"})
           \/ Answered({"validate"}) /\ ErrorArising = "InvalidAuth")
       => Propagated]_vars

\* the data request got a 429 and the call raised RateLimited
C23_Witness ==
    /\ last.pc = "target" /\ ~last.r.err /\ last.r.status = 429
    /\ tasks[1].op = "metrics"
    /\ tasks[1].pc = "done" /\ tasks[1].result.kind = "RateLimited"

\* C23 as the specification states it: every error that arises in a request
\* other than a pre-login probe reaches the caller as an error of its kind.
C23_AsStated ==
    [][(/\ ErrorArising # "none"
        /\ Answered({"validate", "sso", "redirect", "keepalive", "target"}))
       => Propagated]_vars

(***************************************************************************)
(* The session flag of the one caller, checked under SpecClient.           *)
(***************************************************************************)
\* C26: a 401 or a 403, in answer to any request (probe, validate-user,
\* SSO-ready, login-redirect, keep-alive, data request) and on any attempt,
\* leaves the session marked invalid when the request primitive goes on to
\* re-authenticate or to raise.
C26_RejectionMarksInvalid ==
    [][(/\ last'.pc \in {"probe1", "probe2", "validate", "sso", "redirect",
                         "keepalive", "target"}
        /\ ~last'.r.err
        /\ last'.r.status \in {401, 403})
       => ~api'.session_valid]_vars

\* the keep-alive request, sent because the session was valid, got a 403
C26_Witness ==
    /\ last.pc = "keepalive" /\ ~last.r.err /\ last.r.status = 403
    /\ ~api.session_valid

(***************************************************************************)
(* Two callers at once, checked under SpecRace.                            *)
(***************************************************************************)
\* C25 as the specification states it: under every interleaving of the calls
\* the session flag goes from invalid to valid only in the step that
\* completes the three requests of a login handshake.
C25_AsStated ==
    [][(~api.session_valid /\ api'.session_valid) =>
          /\ last'.login = "returned"
          /\ last'.pc = "redirect"
          /\ tasks'[last'.task].steps = Handshake]_vars

(***************************************************************************)
(* The change of the credentials, checked under SpecCredentials.           *)
(***************************************************************************)
\* C27 as the specification states it: update_credentials leaves the session
\* marked invalid, and the get_plants or get_metrics call that comes next
\* begins with a login under the new credentials, not with its data request.
C27_AsStated ==
    /\ [](last.pc = "update_credentials" => ~api.session_valid)
    /\ [][(/\ last.pc = "update_credentials"
           /\ last'.pc = "call"
           /\ tasks'[1].op \in {"plants", "metrics"})
          => /\ tasks'[1].pc = "probe1"
             /\ api'.password = api.password]_vars

\* the first data request of call i is answered by a 401 in this step
FirstAttemptGets401(i) ==
    /\ tasks[i].op = "metrics"
    /\ tasks[i].pc = "target" /\ tasks[i].attempt = 0
    /\ last'.task = i /\ last'.pc = "target"
    /\ ~last'.r.err /\ last'.r.status = 401

\* C28: with two get_metrics calls at once, a call whose first attempt gets a
\* 401 begins a login of its own, whatever the other call has done to the
\* session, and leaves the other call as it is; no call re-authenticates twice
\* or sends its request a third time, a call whose login returned retries
\* once, every call ends, and a call that returns gives the snapshot of its
\* own plant.
C28_IndependentReauth ==
    /\ [][\A i \in {1, 2} :
            FirstAttemptGets401(i) =>
                /\ tasks'[i].pc = "probe1" /\ tasks'[i].hidx = 1
                /\ tasks'[i].n_reauth = 1
                /\ tasks'[3 - i] = tasks[3 - i]]_vars
    /\ [](\A i \in {1, 2} :
            /\ tasks[i].n_reauth <= 1
            /\ tasks[i].n_target <= 2
            /\ (tasks[i].n_reauth = 1 /\ tasks[i].pc = "target") => tasks[i].n_target = 2
            /\ (tasks[i].op = "metrics" /\ tasks[i].pc = "done"
                /\ tasks[i].result.kind = "ok") =>
                  /\ tasks[i].pid = <<P1, P2>>[i]
                  /\ tasks[i].result.snap.plant_id = tasks[i].pid)
    /\ \A i \in {1, 2} : (tasks[i].pc # "idle") ~> (tasks[i].pc = "done")

\* both calls got a 401 first, each logged in and retried, and each returned
\* the snapshot of its plant
C28_Witness ==
    /\ \A i \in {1, 2} :
          /\ tasks[i].op = "metrics" /\ tasks[i].pc = "done"
          /\ tasks[i].hist = <<401, 200>>
          /\ tasks[i].n_reauth = 1 /\ tasks[i].n_target = 2
          /\ tasks[i].result.kind = "ok"
    /\ tasks[1].result.snap.plant_id = P1
    /\ tasks[2].result.snap.plant_id = P2


(***************************************************************************)
(* The pre-login probes, checked under SpecClient.                         *)
(***************************************************************************)
\* answers to a probe, one for each thing the request can do: raise
\* InvalidAuth, RateLimited or CannotConnect, or return
ProbeAnswers ==
    {Http(s, FALSE, RedirectedHead, NoneV, EmptyBody) : s \in {401, 429, 500, 200}}

\* what the running login does on any answer to its next request is what it
\* would do had its last probe been answered with p
BlindTo(p) ==
    LET t == tasks[1]
        a2 == request_raw(api, LIST_UNFORBIDDEN_SERVER_PATH, RequestHost(t), FALSE, 0, p).a
    IN  \A r \in Responses(Endpoint(t), RaceProfile) :
           LET d1 == Deliver(api, t, r)
               d2 == Deliver(a2, t, r)
           IN  d1.t = d2.t /\ d1.login = d2.login

\* C30: whatever answers a pre-login probe (no answer, any status, an HTML
\* page), the login goes on with the next request of the same host, the first
\* probe then the second then validate-user, and nothing of the running login
\* is changed; validate-user is posted only after the second probe, the second
\* probe only after the first; and the steps from validate-user on do what
\* they would do had the probe been answered otherwise.
C30_ProbesIgnored ==
    /\ [][/\ tasks[1].pc \in {"probe1", "probe2"} =>
                /\ tasks'[1] = [tasks[1] EXCEPT
                                   !.pc = IF tasks[1].pc = "probe1" THEN "probe2" ELSE "validate"]
                /\ last'.login = "none"
          /\ (tasks'[1].pc = "validate" /\ tasks[1].pc # "validate") => tasks[1].pc = "probe2"
          /\ (tasks'[1].pc = "probe2" /\ tasks[1].pc # "probe2") => tasks[1].pc = "probe1"]_vars
    /\ [](tasks[1].pc \in {"validate", "sso", "redirect"} => \A p \in ProbeAnswers : BlindTo(p))

\* the second probe of a direct login got no answer and validate-user is posted
C30_Witness ==
    /\ last.task = 1 /\ last.pc = "probe2" /\ last.r.err
    /\ tasks[1].op = "login" /\ tasks[1].pc = "validate"


(***************************************************************************)
(* Cycles that carry snapshots forward, checked under Spec.                *)
(***************************************************************************)
\* the plants the cycle selected
SelectedIds == {tasks'[i].pid : i \in 2..Len(tasks')}

\* every metrics call of the cycle raised, and none raised InvalidAuth
AllMetricsFailed ==
    \A i \in 2..Len(tasks') : tasks'[i].result.kind \notin {"ok", "InvalidAuth"}

\* C32: when the gather of a cycle ends with every selected plant's metrics
\* call failed with an error other than InvalidAuth, and the previous data
\* holds a snapshot of one of them at least, the cycle returns: its map is the
\* previous snapshots of the selected plants and nothing else, failure_count
\* is 0, the interval is the nominal one and the success stamp is new.
C32_AllFailedStillSucceeds ==
    [][(/\ GatherEnded
        /\ AllMetricsFailed
        /\ co.data.isdict
        /\ SelectedIds \cap DOMAIN co.data.map # {})
       => /\ co'.outcome = "returned"
          /\ co'.data.isdict
          /\ DOMAIN co'.data.map = SelectedIds \cap DOMAIN co.data.map
          /\ \A id \in DOMAIN co'.data.map : co'.data.map[id] = co.data.map[id]
          /\ co'.failure_count = 0
          /\ co'.update_interval = Nominal
          /\ co'.last_success_at_utc = 0]_vars

\* a cycle returned in which both metrics calls failed: its map holds the
\* snapshots of an earlier cycle alone, and it counts as a success
C32_Witness ==
    /\ co.phase = "idle" /\ co.outcome = "returned"
    /\ Len(tasks) = 3
    /\ tasks[2].result.kind \notin {"ok", "InvalidAuth", "none"}
    /\ tasks[3].result.kind \notin {"ok", "InvalidAuth", "none"}
    /\ co.data.isdict /\ DOMAIN co.data.map # {}
    /\ \A id \in DOMAIN co.data.map : co.data.map[id].updated_at_utc = 1
    /\ co.failure_count = 0 /\ co.update_interval = Nominal
    /\ co.last_success_at_utc = 0


\* C33: after one failure or more that backed off, the polling interval is the
\* nominal interval of the entry at least.
C33_AsStated == co.failure_count >= 1 => co.update_interval >= Nominal


\* in this step the cycle ended
CycleEnded == co.phase # "idle" /\ co'.phase = "idle"

\* C34: a cycle that returns gives, for every selected plant whose metrics call
\* failed with an error other than InvalidAuth and that had a snapshot in the
\* data, that snapshot as it was, however old it is; a cycle that raises
\* leaves the data as it was; and the start of the next cycle changes nothing
\* of the data but the age of its stamps.
C34_SnapshotKeptWhileFailing ==
    [][/\ (GatherEnded /\ co'.outcome = "returned") =>
             \A i \in 2..Len(tasks') :
                ( /\ tasks'[i].result.kind \notin {"ok", "InvalidAuth"}
                  /\ co.data.isdict
                  /\ tasks'[i].pid \in DOMAIN co.data.map )
                => /\ tasks'[i].pid \in DOMAIN co'.data.map
                   /\ co'.data.map[tasks'[i].pid] = co.data.map[tasks'[i].pid]
       /\ (CycleEnded /\ co'.outcome \in {"UpdateFailed", "ConfigEntryAuthFailed"}) =>
             co'.data = co.data
       /\ (co.phase = "idle" /\ co'.phase # "idle") =>
             /\ co'.data.isdict = co.data.isdict
             /\ DOMAIN co'.data.map = DOMAIN co.data.map
             /\ \A id \in DOMAIN co.data.map :
                   /\ [co'.data.map[id] EXCEPT !.updated_at_utc = 0]
                         = [co.data.map[id] EXCEPT !.updated_at_utc = 0]
                   /\ co'.data.map[id].updated_at_utc = 1]_vars

\* the one plant of the allow-list was rate limited in a cycle that returned
\* its snapshot of an earlier cycle
C34_Witness ==
    /\ cfg.enabled_plant_ids.ids = {P1}
    /\ co.phase = "idle" /\ co.outcome = "returned"
    /\ Len(tasks) = 2 /\ tasks[2].pid = P1 /\ tasks[2].result.kind = "RateLimited"
    /\ co.data.isdict /\ DOMAIN co.data.map = {P1}
    /\ co.data.map[P1].updated_at_utc = 1


\* C35: the map a cycle returns has no key but ids of the plants the cycle
\* selected: a snapshot the data held of a plant that is not selected any more
\* is not in it.
C35_ReturnedKeysAreSelected ==
    [][(GatherEnded /\ co'.outcome = "returned") =>
          /\ DOMAIN co'.data.map \subseteq {co.selected[i].plant_id : i \in 1..Len(co.selected)}
          /\ DOMAIN co'.data.map \subseteq {tasks'[1].result.plants[i].plant_id :
                                              i \in 1..Len(tasks'[1].result.plants)}
          /\ \A id \in DOMAIN co.data.map :
                id \notin {co.selected[i].plant_id : i \in 1..Len(co.selected)}
                => id \notin DOMAIN co'.data.map]_vars

\* a cycle polls P1 alone, the one plant now discovered, while the data holds
\* the snapshot of P2 that an earlier cycle returned
C35_Witness ==
    /\ co.phase = "gather"
    /\ Len(co.selected) = 1 /\ co.selected[1].plant_id = P1
    /\ DOMAIN co.known_plants = {P1}
    /\ co.data.isdict /\ P2 \in DOMAIN co.data.map
    /\ Len(tasks) = 2 /\ tasks[2].pc = "target"


(***************************************************************************)
(* The keep-alive request, checked under SpecClient.                       *)
(***************************************************************************)
\* in this step the caller's async_get_plants or async_get_metrics enters
\* async_refresh_session: before its first request, or on a 401 or 403
RefreshedInside ==
    /\ tasks'[1].op \in {"plants", "metrics"}
    /\ \/ last'.pc = "call" /\ ~api.session_valid
       \/ tasks'[1].n_reauth = tasks[1].n_reauth + 1 /\ tasks[1].op = tasks'[1].op

\* C36: no keep-alive request is made inside get_plants or get_metrics: every
\* refresh they start, before the first request or on a 401 or 403, finds the
\* session marked invalid and begins the login; a keep-alive request is made
\* only at a direct call of refresh_session that finds the session valid.
C36_KeepaliveOnlyDirect ==
    /\ [](tasks[1].pc = "keepalive" => tasks[1].op = "refresh" /\ tasks[1].ctx = "direct")
    /\ [][/\ RefreshedInside => ~api'.session_valid /\ LoginBegun
          /\ (tasks'[1].pc = "keepalive" /\ tasks[1].pc # "keepalive") =>
                /\ last'.pc = "call"
                /\ tasks'[1].op = "refresh"
                /\ api.session_valid]_vars

\* get_plants was answered 401 while the session was held valid: the refresh
\* it started found the session invalid and the login is at its first probe
C36_Witness ==
    /\ tasks[1].op = "plants" /\ tasks[1].ctx = "retry"
    /\ tasks[1].pc = "probe1" /\ tasks[1].hidx = 1
    /\ tasks[1].n_reauth = 1 /\ tasks[1].hist = <<401>>
    /\ last.pc = "target" /\ last.r.status = 401
    /\ ~api.session_valid


(***************************************************************************)
(* The number of requests of a call, checked under SpecClient.             *)
(***************************************************************************)
\* the requests a login makes at most: two probes and validate-user for each
\* of three host candidates, then SSO-ready and login-redirect
MaxLoginRequests == 3 * 3 + 2

\* the requests the running login can still make, the awaited one included
LoginRemaining(t) ==
    CASE t.pc = "probe1" -> 3 * (Len(t.hosts) - t.hidx) + 5
      [] t.pc = "probe2" -> 3 * (Len(t.hosts) - t.hidx) + 4
      [] t.pc = "validate" -> 3 * (Len(t.hosts) - t.hidx) + 3
      [] t.pc = "sso" -> 2
      [] t.pc = "redirect" -> 1
      [] t.pc = "keepalive" -> 1 + MaxLoginRequests
      [] OTHER -> 0

\* the requests the call can still make once its refresh has returned
AfterRefreshRemaining(t) ==
    CASE t.ctx = "pre" -> 1 + MaxLoginRequests + 1
      [] t.ctx = "retry" -> 1
      [] OTHER -> 0

\* the requests the running call can still make, the awaited one included
Remaining(t) ==
    IF t.pc = "target"
    THEN IF t.attempt = 0 THEN 1 + MaxLoginRequests + 1 ELSE 1
    ELSE LoginRemaining(t) + AfterRefreshRemaining(t)

Running == tasks[1].pc \notin {"idle", "done"}

\* C37: every call ends after a bounded number of requests, whatever the
\* answers: each answer ends the call or leaves it with fewer requests to
\* make, of which there are 2 * (3 * 3 + 2) + 2 at most; the target endpoint is
\* requested twice at most and one re-authentication is made at most; a 401 or
\* 403 answer to a request of the login, of the probes or of the keep-alive
\* starts no re-authentication.
C37_BoundedRequests ==
    /\ [](Running => Remaining(tasks[1]) <= 2 * MaxLoginRequests + 2)
    /\ [](tasks[1].n_target <= 2 /\ tasks[1].n_reauth <= 1)
    /\ [][/\ Running => \/ tasks'[1].pc = "done"
                        \/ Remaining(tasks'[1]) < Remaining(tasks[1])
          /\ (Running /\ tasks[1].pc # "target") =>
                /\ tasks'[1].n_reauth = tasks[1].n_reauth
                /\ tasks'[1].ctx = tasks[1].ctx \/ tasks'[1].pc = "done"]_vars

\* a call of get_metrics has ended that was answered 401, logged in again and
\* requested its endpoint a second time
C37_Witness ==
    /\ tasks[1].op = "metrics" /\ tasks[1].pc = "done"
    /\ tasks[1].n_target = 2 /\ tasks[1].n_reauth = 1
    /\ tasks[1].hist[1] = 401


(***************************************************************************)
(* An HTML page in answer to a request, checked under SpecClient.          *)
(***************************************************************************)
\* in this step the request of a data endpoint or of SSO-ready is answered
\* with status 200 and an HTML content type
HtmlAnswered ==
    /\ Running
    /\ last'.pc = tasks[1].pc
    /\ last'.pc \in {"target", "sso"}
    /\ ~last'.r.err /\ last'.r.status = 200 /\ last'.r.html

\* C38: a 200 answer with an HTML content type to a data endpoint or to
\* SSO-ready ends the call with InvalidAuth in that step: no re-authentication
\* is started, the request is not made again, and the session flag is what it
\* was, valid if it was valid.
C38_HtmlRaisesAtOnce ==
    [][HtmlAnswered =>
          /\ tasks'[1].pc = "done"
          /\ tasks'[1].result.kind = "InvalidAuth"
          /\ tasks'[1].n_reauth = tasks[1].n_reauth
          /\ tasks'[1].n_target = tasks[1].n_target
          /\ api'.session_valid = api.session_valid]_vars

\* the first request of get_plants was answered with an HTML page: the call
\* raised InvalidAuth without a re-authentication and the session is still
\* marked valid
C38_Witness ==
    /\ tasks[1].op = "plants" /\ tasks[1].pc = "done"
    /\ tasks[1].result.kind = "InvalidAuth"
    /\ tasks[1].n_target = 1 /\ tasks[1].n_reauth = 0
    /\ last.pc = "target" /\ last.r.status = 200 /\ last.r.html
    /\ api.session_valid


(***************************************************************************)
(* The errors that end the login, checked under SpecClient.                *)
(***************************************************************************)
\* in this step the login goes on to its next host candidate
MovedToNextHost ==
    /\ tasks[1].pc \in {"probe1", "probe2", "validate", "sso", "redirect"}
    /\ tasks'[1].pc = "probe1"
    /\ tasks'[1].hidx = tasks[1].hidx + 1

\* in this step the login raises `kind` to its caller, which ends with it; the
\* session is not marked valid
AbortedWith(kind) ==
    /\ tasks'[1].pc = "done"
    /\ tasks'[1].result.kind = kind
    /\ last'.login = "raised"
    /\ api'.session_valid => api.session_valid

\* C39: the login goes on to its next host candidate only when validate-user
\* raised CannotConnect or RateLimited; an error of SSO-ready or of
\* login-redirect, an InvalidAuth of validate-user, and a validate-user
\* payload the login refuses (wrong credentials, a challenge, an unexpected
\* payload, no ticket) end the login with that error in the same step, however
\* many candidates are left, and do not mark the session valid.
C39_OnlyValidateConnectionErrorsMoveOn ==
    [][/\ MovedToNextHost =>
             Answered({"validate"}) /\ ErrorArising \in {"CannotConnect", "RateLimited"}
       /\ (Answered({"sso", "redirect"}) /\ ErrorArising # "none") => AbortedWith(ErrorArising)
       /\ (Answered({"validate"}) /\ ErrorArising = "InvalidAuth") => AbortedWith("InvalidAuth")
       /\ (Answered({"validate"}) /\ ErrorArising = "none") =>
             \/ tasks'[1].pc = "sso" /\ tasks'[1].hidx = tasks[1].hidx
             \/ \E kind \in {"InvalidAuth", "EndpointSchemaChanged", "CannotConnect"} :
                   AbortedWith(kind)]_vars

\* SSO-ready was rate limited on the first of three host candidates and the
\* login raised RateLimited
C39_Witness ==
    /\ last.pc = "sso" /\ ~last.r.err /\ last.r.status = 429
    /\ last.hidx = 1 /\ last.nhosts = 3
    /\ last.login = "raised"
    /\ tasks[1].pc = "done" /\ tasks[1].result.kind = "RateLimited"


(***************************************************************************)
(* The empty allow-list, checked under Spec.                               *)
(***************************************************************************)
\* the ids of the plants the plant-list fetch of this step returned
Discovered ==
    {tasks'[1].result.plants[i].plant_id : i \in 1..Len(tasks'[1].result.plants)}

\* C40: with an allow-list that is configured and empty, as with none, a cycle
\* selects every plant it discovered and starts a metrics call for each; a
\* cycle fails for "no plants selected" only when the allow-list is not empty
\* and names none of the discovered plants.
C40_EmptyAllowListSelectsAll ==
    [][PlantsEndedWith("ok") =>
          /\ (cfg.enabled_plant_ids.ids = {} /\ tasks'[1].result.plants # <<>>) =>
                /\ co'.phase = "gather"
                /\ co'.selected = tasks'[1].result.plants
                /\ Len(tasks') = 1 + Len(co'.selected)
          /\ co'.message = "No plants selected for polling" =>
                /\ co'.outcome = "UpdateFailed"
                /\ cfg.enabled_plant_ids.present
                /\ cfg.enabled_plant_ids.ids # {}
                /\ cfg.enabled_plant_ids.ids \cap Discovered = {}
                /\ Discovered # {}]_vars

\* the allow-list is configured and empty, and the cycle polls the two plants
\* it discovered
C40_Witness ==
    /\ cfg.enabled_plant_ids = Option(TRUE, {})
    /\ co.phase = "gather"
    /\ Len(co.selected) = 2
    /\ DOMAIN co.known_plants = {P1, P2}
    /\ Len(tasks) = 3 /\ tasks[2].pid = P1 /\ tasks[3].pid = P2

====
